---- MODULE Spec2Model ----
(***************************************************************************)
(* pyidec-modbus: tag normalisation, tag map lookup, and the client's      *)
(* read / write / read_many dispatch over a pymodbus-like transport.       *)
(*                                                                         *)
(* Strings are sequences of one-character strings, so that normalisation   *)
(* is computed character by character as normalize_tag does it.            *)
(* Python's None is the empty sequence <<>>, an optional value v is <<v>>. *)
(***************************************************************************)
EXTENDS Integers, Sequences, FiniteSets, Bags, TLC

(***************************************************************************)
(* Bounds of the model.                                                    *)
(***************************************************************************)
\* longest tag list handed to read_many
MaxTags == 3
\* number of client calls in one behaviour
MaxOps == 2
\* longest run of digits in a raw string handed to normalize_tag
MaxDigits == 5
\* longest list of entries a TagMap is loaded from
MaxEntries == 3

(***************************************************************************)
(* normalize.py                                                            *)
(***************************************************************************)
LowerLetters ==
  <<"a","b","c","d","e","f","g","h","i","j","k","l","m",
    "n","o","p","q","r","s","t","u","v","w","x","y","z">>

UpperLetters ==
  <<"A","B","C","D","E","F","G","H","I","J","K","L","M",
    "N","O","P","Q","R","S","T","U","V","W","X","Y","Z">>

DigitChars == <<"0","1","2","3","4","5","6","7","8","9">>

Whitespace == {" ", "\t", "\n"}

\* Characters outside ASCII are written by their code point.  These four are
\* the non-ASCII characters that [A-Z] matches under re.IGNORECASE: their
\* case variants lie in A-Z or a-z.
DottedCapitalI == "U+0130"
DotlessI == "U+0131"
LongS == "U+017F"
KelvinSign == "U+212A"

\* one of the non-ASCII decimal digits that \d matches in a str pattern
ArabicIndicThree == "U+0663"

IsAsciiLetter(c) == \E i \in 1..26 : c = LowerLetters[i] \/ c = UpperLetters[i]

\* [A-Z] with re.IGNORECASE
IsLetter(c) == IsAsciiLetter(c) \/ c \in {DottedCapitalI, DotlessI, LongS, KelvinSign}

IsAsciiDigit(c) == \E i \in 1..10 : c = DigitChars[i]

\* \d
IsDigit(c) == IsAsciiDigit(c) \/ c = ArabicIndicThree

\* the value int() gives a digit
DigitValue(c) ==
  IF c = ArabicIndicThree THEN 3 ELSE (CHOOSE i \in 1..10 : DigitChars[i] = c) - 1

\* str.upper() on one character
Upper(c) ==
  IF \E i \in 1..26 : c = LowerLetters[i]
  THEN UpperLetters[CHOOSE i \in 1..26 : c = LowerLetters[i]]
  ELSE IF c = DotlessI THEN "I"
  ELSE IF c = LongS THEN "S"
  ELSE c

UpperStr(s) == [i \in 1..Len(s) |-> Upper(s[i])]

\* str.lower() on one character
Lower(c) ==
  IF \E i \in 1..26 : c = UpperLetters[i]
  THEN LowerLetters[CHOOSE i \in 1..26 : c = UpperLetters[i]]
  ELSE IF c = KelvinSign THEN "k"
  ELSE IF c = DottedCapitalI THEN "U+0069 U+0307"
  ELSE c

LowerStr(s) == [i \in 1..Len(s) |-> Lower(s[i])]

\* str.strip()
RECURSIVE LStrip(_)
LStrip(s) ==
  IF s # <<>> /\ s[1] \in Whitespace THEN LStrip(Tail(s)) ELSE s

RECURSIVE RStrip(_)
RStrip(s) ==
  IF s # <<>> /\ s[Len(s)] \in Whitespace
  THEN RStrip(SubSeq(s, 1, Len(s) - 1)) ELSE s

Strip(s) == RStrip(LStrip(s))

\* number of leading decimal digits of s
RECURSIVE DigitRun(_)
DigitRun(s) ==
  IF s # <<>> /\ IsDigit(s[1]) THEN 1 + DigitRun(Tail(s)) ELSE 0

\* int(num_str)
RECURSIVE ParseInt(_)
ParseInt(s) ==
  IF s = <<>> THEN 0
  ELSE 10 * ParseInt(SubSeq(s, 1, Len(s) - 1)) + DigitValue(s[Len(s)])

\* variant: the number is padded to five digits
Pad5(num) ==
  << DigitChars[((num \div 10000) % 10) + 1],
     DigitChars[((num \div 1000) % 10) + 1], DigitChars[((num \div 100) % 10) + 1],
     DigitChars[((num \div 10) % 10) + 1],   DigitChars[(num % 10) + 1] >>

\* f"{num:04d}" for 0 <= num <= 9999
Pad4(num) ==
  << DigitChars[((num \div 1000) % 10) + 1], DigitChars[((num \div 100) % 10) + 1],
     DigitChars[((num \div 10) % 10) + 1],   DigitChars[(num % 10) + 1] >>

SuffixBodies == { <<"C">>, <<"C","V">>, <<"P","V">> }

VALID_SUFFIXES == { <<".","C">>, <<".","C","V">>, <<".","P","V">> }

NoMatch == [matched |-> FALSE, letter |-> "", num |-> <<>>, suffix |-> <<>>]

\* the optional group (\.(C|CV|PV))? followed by $
SuffixMatches(rest) ==
  \/ rest = <<>>
  \/ /\ rest[1] = "."
     /\ UpperStr(Tail(rest)) \in SuffixBodies

\* the groups once \d{1,4} has taken d digits
MatchGroups(s, d, rest) ==
  IF d >= 1 /\ SuffixMatches(rest)
  THEN [matched |-> TRUE, letter |-> s[1], num |-> SubSeq(s, 2, d + 1), suffix |-> rest]
  ELSE NoMatch

MatchDigits(s, d) == MatchGroups(s, d, SubSeq(s, d + 2, Len(s)))

AtMost4(n) == IF n > 4 THEN 4 ELSE n

\* _OPERAND_PATTERN.match(s): ^([A-Z])(\d{1,4})(\.(C|CV|PV))?$ with IGNORECASE.
\* Yields the groups, or matched = FALSE.
OperandMatch(s) ==
  IF s = <<>> \/ ~IsLetter(s[1]) THEN NoMatch
  ELSE MatchDigits(s, AtMost4(DigitRun(Tail(s))))

Invalid == [err |-> "InvalidTagError", tag |-> <<>>]

\* variant: the current value whatever the caller wrote
TCSuffixDefault(sfx) == <<".","C","V">>

\* the suffix of the canonical form of a timer/counter operand
TCSuffix(sfx) ==
  IF sfx = <<>> THEN <<".","C","V">> ELSE <<".">> \o UpperStr(Tail(sfx))

\* variant: the suffix of an operand that takes none is left out
NormalizeGroupsDropping(letter, num, sfx) ==
  IF num < 0 \/ num > 9999 THEN Invalid
  ELSE IF letter \in {"T", "C"}
       THEN IF TCSuffix(sfx) \notin VALID_SUFFIXES THEN Invalid
            ELSE [err |-> "", tag |-> <<letter>> \o Pad4(num) \o TCSuffix(sfx)]
       ELSE [err |-> "", tag |-> <<letter>> \o Pad4(num)]

\* normalize_tag after the match: the checks and the canonical form
NormalizeGroups(letter, num, sfx) ==
  IF letter \notin {"T", "C"} /\ sfx # <<>> THEN Invalid
  ELSE IF num < 0 \/ num > 9999 THEN Invalid
  ELSE IF letter \in {"T", "C"}
       THEN IF TCSuffix(sfx) \notin VALID_SUFFIXES THEN Invalid
            ELSE [err |-> "", tag |-> <<letter>> \o Pad4(num) \o TCSuffix(sfx)]
       ELSE [err |-> "", tag |-> <<letter>> \o Pad4(num)]

NormalizeMatch(m) ==
  IF ~m.matched THEN Invalid
  ELSE NormalizeGroups(Upper(m.letter), ParseInt(m.num), m.suffix)

NormalizeStripped(s) ==
  IF s = <<>> THEN Invalid ELSE NormalizeMatch(OperandMatch(s))

\* normalize_tag(raw): err = "" and tag = the canonical form, or
\* err = "InvalidTagError".
normalize_tag(raw) == NormalizeStripped(Strip(raw))

(***************************************************************************)
(* types.py, tagmap.py                                                     *)
(***************************************************************************)
COIL == "coil"
DISCRETE_INPUT == "discrete_input"
INPUT_REGISTER == "input_register"
HOLDING_REGISTER == "holding_register"

ModbusTable == {COIL, DISCRETE_INPUT, INPUT_REGISTER, HOLDING_REGISTER}

BitTables == {COIL, DISCRETE_INPUT}

\* TagDef.__post_init__: the conditions under which construction succeeds
TagDefValid(d) == d.offset >= 0 /\ d.width \in {1, 16}

\* the entry list handed to TagMap(map_override=...): the layout of the
\* dispatch tests, a timer's current value (an input register, at the offset
\* D0007 has among the holding registers) and a second operand defined at
\* coil/12
MapEntries ==
  << [operand |-> <<"D","0","0","0","7">>, table |-> HOLDING_REGISTER, offset |-> [int |-> 7],  width |-> [int |-> 16]],
     [operand |-> <<"D","0","0","0","8">>, table |-> HOLDING_REGISTER, offset |-> [int |-> 8],  width |-> [int |-> 16]],
     [operand |-> <<"D","0","0","1","0">>, table |-> HOLDING_REGISTER, offset |-> [int |-> 10], width |-> [int |-> 16]],
     [operand |-> <<"M","0","0","1","2">>, table |-> COIL,             offset |-> [int |-> 12], width |-> [int |-> 1]],
     [operand |-> <<"Q","0","0","1","2">>, table |-> COIL,             offset |-> [int |-> 12], width |-> [int |-> 1]],
     [operand |-> <<"T","0","0","0","7",".","C","V">>, table |-> INPUT_REGISTER, offset |-> [int |-> 7], width |-> [int |-> 16]] >>

\* An entry of a map is a dict, a record with the keys it has, or something
\* else, a record with the one key "notdict".  The offset and width of a
\* dict are [int |-> n], the integer n, or [str |-> n], its decimal string.
IsDict(e) == "notdict" \notin DOMAIN e

\* int(x) of an integer or of a decimal string
IntOf(x) == IF "str" \in DOMAIN x THEN x.str ELSE x.int

\* _parse_entry after the table: int(raw["offset"]), int(raw["width"]), then
\* TagDef(...) with its __post_init__
ParseNumbers(raw) ==
  IF "offset" \notin DOMAIN raw \/ "width" \notin DOMAIN raw
  THEN [exc |-> "KeyError", defn |-> <<>>]
  ELSE IF ~TagDefValid([offset |-> IntOf(raw.offset), width |-> IntOf(raw.width)])
  THEN [exc |-> "ValueError", defn |-> <<>>]
  ELSE [exc |-> "",
        defn |-> <<[operand |-> raw.operand, table |-> raw.table,
                    offset |-> IntOf(raw.offset), width |-> IntOf(raw.width)]>>]

\* _parse_entry(raw): the TagDef, or the exception
parse_entry(raw) ==
  IF ~IsDict(raw) THEN [exc |-> "TypeError", defn |-> <<>>]
  ELSE IF "operand" \notin DOMAIN raw \/ "table" \notin DOMAIN raw
  THEN [exc |-> "KeyError", defn |-> <<>>]
  ELSE IF raw.table \notin ModbusTable THEN [exc |-> "ValueError", defn |-> <<>>]
  ELSE ParseNumbers(raw)

\* variant: a later entry replaces an earlier one for the same operand
LoadParsedOverwriting(before, p) ==
  IF p.exc # "" THEN [exc |-> p.exc, defs |-> before.defs]
  ELSE [exc |-> "",
        defs |-> {d \in before.defs : d.operand # p.defn[1].operand} \cup {p.defn[1]}]

\* the body of the loop over the entries, after _parse_entry: a duplicate
\* operand is a ValueError
LoadParsed(before, p) ==
  IF p.exc # "" THEN [exc |-> p.exc, defs |-> before.defs]
  ELSE IF \E d \in before.defs : d.operand = p.defn[1].operand
  THEN [exc |-> "ValueError", defs |-> before.defs]
  ELSE [exc |-> "", defs |-> before.defs \cup {p.defn[1]}]

\* one entry on the map_override path
LoadEntry(before, e) ==
  IF before.exc # "" THEN before ELSE LoadParsed(before, parse_entry(e))

\* TagMap.__init__ on the map_override path: _by_operand after the first k
\* entries, as a set of TagDefs, or the exception that ended the loop
RECURSIVE LoadEntries(_, _)
LoadEntries(entries, k) ==
  IF k = 0 THEN [exc |-> "", defs |-> {}]
  ELSE LoadEntry(LoadEntries(entries, k - 1), entries[k])

\* one entry on the profile path: what is not a dict is passed over
LoadProfileEntry(before, e) ==
  IF before.exc # "" \/ ~IsDict(e) THEN before ELSE LoadParsed(before, parse_entry(e))

RECURSIVE LoadProfileEntries(_, _)
LoadProfileEntries(entries, k) ==
  IF k = 0 THEN [exc |-> "", defs |-> {}]
  ELSE LoadProfileEntry(LoadProfileEntries(entries, k - 1), entries[k])

\* the profiles with a packaged resource
PROFILE_RESOURCE == {"fc6a"}

\* profile.lower()
ProfileLower(profile) == IF profile = "FC6A" THEN "fc6a" ELSE profile

\* The parsed JSON of a resource is [shape, items]: a list of items, a dict
\* with the list under "entries", a dict with the items as its values, or
\* anything else.  The entries the loader takes from it:
DataEntries(data) == IF data.shape = "other" THEN <<>> ELSE data.items

\* TagMap.__init__ on the profile path; resources maps a profile name to the
\* parsed JSON of its resource file, if the file is there
LoadResource(name, resources) ==
  IF name \notin PROFILE_RESOURCE THEN [exc |-> "ValueError", defs |-> {}]
  ELSE IF name \notin DOMAIN resources THEN [exc |-> "FileNotFoundError", defs |-> {}]
  ELSE LoadProfileEntries(DataEntries(resources[name]), Len(DataEntries(resources[name])))

LoadProfile(profile, resources) == LoadResource(ProfileLower(profile), resources)

\* the map a client is built with
TagMapInit(entries) == LoadEntries(entries, Len(entries)).defs

\* variant: any TagDef of the map answers
lookupAny(by_op, tag) ==
  IF by_op # {}
  THEN [err |-> "", defn |-> <<CHOOSE d \in by_op : TRUE>>]
  ELSE [err |-> "UnknownTagError", defn |-> <<>>]

\* TagMap.lookup(tag): the TagDef, or UnknownTagError
lookup(by_op, tag) ==
  IF \E d \in by_op : d.operand = tag
  THEN [err |-> "", defn |-> <<CHOOSE d \in by_op : d.operand = tag>>]
  ELSE [err |-> "UnknownTagError", defn |-> <<>>]

(***************************************************************************)
(* Python values: bool(x) and int(x) convert between the two kinds.        *)
(***************************************************************************)
PyTrue == [t |-> "bool", v |-> 1]
PyFalse == [t |-> "bool", v |-> 0]
PyIntOf(n) == [t |-> "int", v |-> n]
PyBool(x) == [t |-> "bool", v |-> IF x.v # 0 THEN 1 ELSE 0]
PyInt(x) == [t |-> "int", v |-> x.v]

(***************************************************************************)
(* errors.py: an exception is its class and, for ModbusIOError, the tag,   *)
(* table and offset it carries.                                            *)
(***************************************************************************)
NoExc == [type |-> "", tag |-> <<>>, table |-> <<>>, offset |-> <<>>]

InvalidTagError(raw) ==
  [type |-> "InvalidTagError", tag |-> <<raw>>, table |-> <<>>, offset |-> <<>>]

UnknownTagError(tag) ==
  [type |-> "UnknownTagError", tag |-> <<tag>>, table |-> <<>>, offset |-> <<>>]

ModbusIOError(tag, table, offset) ==
  [type |-> "ModbusIOError", tag |-> tag, table |-> table, offset |-> offset]

\* an exception of the transport library (pymodbus.exceptions.ModbusException)
PymodbusException ==
  [type |-> "ModbusException", tag |-> <<>>, table |-> <<>>, offset |-> <<>>]

IndexError == [type |-> "IndexError", tag |-> <<>>, table |-> <<>>, offset |-> <<>>]

(***************************************************************************)
(* The transport (ModbusTcpClient), as the client sees it.  One client     *)
(* call meets one transport behaviour: whether connect() succeeds, which   *)
(* device image answers, and which request (if any) fails and how.         *)
(***************************************************************************)
FailKinds == {"error", "short", "raise"}

\* connect() fails, or it succeeds (or is not needed) and every request is
\* answered in full, or request number failAt fails in one of three ways
Behaviours ==
  [connectOk : BOOLEAN, failAt : {0}, kind : {"none"}]
  \cup [connectOk : {TRUE}, failAt : 1..MaxTags, kind : FailKinds]

\* the behaviours that differ for a call that makes n requests, on a client
\* that has to connect first or not
BehavioursFor(mustConnect, n) ==
  {b \in Behaviours : b.failAt <= n /\ (b.connectOk \/ mustConnect)}

\* the value the device holds at (table, off)
DeviceValue(table, off) ==
  IF table \in BitTables
  THEN IF off % 2 = 0 THEN PyTrue ELSE PyFalse
  ELSE IF table = HOLDING_REGISTER THEN PyIntOf(35 + off) ELSE PyIntOf(100 + off)

\* variant: the input-register branch calls the holding-register primitive
ReadFnRegistersAlike(table) ==
  CASE table = COIL             -> "read_coils"
    [] table = DISCRETE_INPUT   -> "read_discrete_inputs"
    [] table = INPUT_REGISTER   -> "read_holding_registers"
    [] table = HOLDING_REGISTER -> "read_holding_registers"

\* the primitive of each table
ReadFn(table) ==
  CASE table = COIL             -> "read_coils"
    [] table = DISCRETE_INPUT   -> "read_discrete_inputs"
    [] table = INPUT_REGISTER   -> "read_input_registers"
    [] table = HOLDING_REGISTER -> "read_holding_registers"

\* the registers or bits of a full answer to (table, addr, count)
FullValues(table, addr, count) ==
  [i \in 1..count |-> DeviceValue(table, addr + i - 1)]

\* the answer to the n-th request of a call: an exception ("raise"), an
\* error response (isError()), or a response with bits/registers
Respond(beh, n, table, addr, count) ==
  IF n = beh.failAt /\ beh.kind = "raise" THEN [kind |-> "raise", values |-> <<>>]
  ELSE IF n = beh.failAt /\ beh.kind = "error" THEN [kind |-> "error", values |-> <<>>]
  ELSE IF n = beh.failAt /\ beh.kind = "short"
       THEN [kind |-> "ok", values |-> FullValues(table, addr, count - 1)]
  ELSE [kind |-> "ok", values |-> FullValues(table, addr, count)]

\* variant: only the emptiness of the response is tested
EmptyResponse(values, count) == values = <<>>

\* `not values or len(values) < count`
ShortResponse(values, count) == values = <<>> \/ Len(values) < count

(***************************************************************************)
(* client.py: _coalesce_ranges                                             *)
(***************************************************************************)
\* sorted(offset_to_tag.keys())
RECURSIVE SortedSeq(_)
SortedSeq(S) ==
  IF S = {} THEN <<>>
  ELSE LET m == CHOOSE x \in S : \A y \in S : x <= y
       IN <<m>> \o SortedSeq(S \ {m})

\* variant: any later offset continues the range, gaps included
AdjacentOrLater(prev, off) == off > prev

\* `off == prev + 1`
Adjacent(prev, off) == off = prev + 1

\* a finished range
Range(start, group) == [start |-> start, count |-> Len(group), group |-> group]

\* the loop over sorted_offsets[1:], at index i, then the final append
RECURSIVE CoalesceLoop(_, _, _, _, _, _, _)
CoalesceLoop(o2t, sorted, i, ranges, start, prev, group) ==
  IF i > Len(sorted) THEN Append(ranges, Range(start, group))
  ELSE IF Adjacent(prev, sorted[i])
       THEN CoalesceLoop(o2t, sorted, i + 1, ranges, start, sorted[i],
                         Append(group, <<sorted[i], o2t[sorted[i]]>>))
       ELSE CoalesceLoop(o2t, sorted, i + 1, Append(ranges, Range(start, group)),
                         sorted[i], sorted[i], <<<<sorted[i], o2t[sorted[i]]>>>>)

CoalesceSorted(o2t, sorted) ==
  CoalesceLoop(o2t, sorted, 2, <<>>, sorted[1], sorted[1],
               <<<<sorted[1], o2t[sorted[1]]>>>>)

\* offset_to_tag is a function offset -> operand
coalesce_ranges(o2t) ==
  IF DOMAIN o2t = {} THEN <<>> ELSE CoalesceSorted(o2t, SortedSeq(DOMAIN o2t))

(***************************************************************************)
(* client.py: IDECModbusClient                                             *)
(***************************************************************************)
VARIABLES
  by_operand,   \* TagMap._by_operand: the loaded TagDefs
  cache,        \* IDECModbusClient._cache: set of [key, defn]
  client,       \* IDECModbusClient._client: "None", or a handle whose
                \* connect() returned true ("Connected") or false ("Unconnected")
  last,         \* the call in progress or just finished, and how it ended
  calls,        \* the transport operations of that call, in order
  ops,          \* number of calls made so far that take tags
  norm,         \* the calls of normalize_tag a caller made, in order, each
                \* with its argument and its result
  lookups,      \* how often TagMap.lookup has returned a TagDef to the
                \* client, per tag (a bag)
  poll          \* the generator poll_iter returned: where it is suspended,
                \* its arguments, and what it has done so far, in order

vars == <<by_operand, cache, client, last, calls, ops, norm, lookups, poll>>

\* raw tag strings that all resolve: neighbouring and distant registers, two
\* spellings of one coil, and a second operand at that coil's offset
RangeTags ==
  { <<"d","7">>, <<"D","0","0","0","8">>, <<"D","1","0">>,
    <<"m","1","2">>, <<"M","0","0","1","2">>, <<"Q","1","2">> }

\* raw tag strings over three tables (one of them read-only), with a
\* malformed and an unknown one
MixedTags ==
  { <<"d","7">>, <<"D","0","0","0","8">>, <<"t","7">>, <<"m","1","2">>,
    <<"M","1","2",".","P","V">>, <<"X","9">> }

\* the raw tag strings callers use
RawTags == RangeTags \cup MixedTags

\* the values callers write
WriteValues == {PyTrue, PyFalse, PyIntOf(0), PyIntOf(100)}

\* lists of 1..n tags of T
TagLists(T, n) == UNION {[1..k -> T] : k \in 1..n}

\* a Python exception that carries no tag, table or offset
PyError(type) == [type |-> type, tag |-> <<>>, table |-> <<>>, offset |-> <<>>]

\* no generator yet
NoPoll == [pc |-> "none", tags |-> <<>>, interval |-> 0, events |-> <<>>]

Idle ==
  [op |-> "idle", tags |-> <<>>, value |-> <<>>, outcome |-> "", exc |-> NoExc,
   ret |-> <<>>, out |-> <<>>]

\* a transport operation in the log
Call(fn, table, addr, count, arg, resp) ==
  [fn |-> fn, table |-> table, addr |-> addr, count |-> count, arg |-> arg, resp |-> resp]

ConnectCall(ok) ==
  Call("connect", "", 0, 0, <<>>, [kind |-> IF ok THEN "ok" ELSE "fail", values |-> <<>>])

\* _get_client(): the handle is stored before connect() is tried
get_client(cl, beh) ==
  IF cl = "None"
  THEN IF beh.connectOk
       THEN [client |-> "Connected", exc |-> NoExc, calls |-> <<ConnectCall(TRUE)>>]
       ELSE [client |-> "Unconnected", exc |-> ModbusIOError(<<>>, <<>>, <<>>),
             calls |-> <<ConnectCall(FALSE)>>]
  ELSE [client |-> cl, exc |-> NoExc, calls |-> <<>>]

\* self._cache[normalized]
CacheGet(ca, key) == (CHOOSE e \in ca : e.key = key).defn

\* variant: the TagDef is returned without being stored
ResolveLookupUncached(ca, tag, l) ==
  IF l.err # ""
  THEN [exc |-> UnknownTagError(tag), defn |-> <<>>, cache |-> ca, looked |-> <<>>]
  ELSE [exc |-> NoExc, defn |-> l.defn, cache |-> ca, looked |-> <<tag>>]

\* `self._cache[normalized] = self._tagmap.lookup(normalized)`
ResolveLookup(ca, tag, l) ==
  IF l.err # ""
  THEN [exc |-> UnknownTagError(tag), defn |-> <<>>, cache |-> ca, looked |-> <<>>]
  ELSE [exc |-> NoExc, defn |-> l.defn, cache |-> ca \cup {[key |-> tag, defn |-> l.defn[1]]},
        looked |-> <<tag>>]

ResolveNormalized(ca, by_op, raw, n) ==
  IF n.err # ""
  THEN [exc |-> InvalidTagError(raw), defn |-> <<>>, cache |-> ca, looked |-> <<>>]
  ELSE IF \E e \in ca : e.key = n.tag
       THEN [exc |-> NoExc, defn |-> <<CacheGet(ca, n.tag)>>, cache |-> ca, looked |-> <<>>]
       ELSE ResolveLookup(ca, n.tag, lookup(by_op, n.tag))

\* _resolve(tag): normalise, then the cache, then the tag map
resolve(ca, by_op, tag) == ResolveNormalized(ca, by_op, tag, normalize_tag(tag))

\* variant: every element is returned as an integer
DecodeAsInt(table, x) == PyInt(x)

\* the decoding of one response element: bool(...) or int(...)
Decode(table, x) == IF table \in BitTables THEN PyBool(x) ELSE PyInt(x)

\* the exception _read_one, _write_one and read_many raise for a request
RequestError(operand, table, offset) ==
  ModbusIOError(<<operand>>, <<table>>, <<offset>>)

\* _read_one after the request: isError(), the empty-response check, element 0
ReadOneResponse(defn, rr) ==
  IF rr.kind = "raise" THEN [exc |-> PymodbusException, ret |-> <<>>]
  ELSE IF rr.kind = "error" \/ ShortResponse(rr.values, 1)
  THEN [exc |-> RequestError(defn.operand, defn.table, defn.offset), ret |-> <<>>]
  ELSE [exc |-> NoExc, ret |-> <<Decode(defn.table, rr.values[1])>>]

ReadOneResult(g, c, x) ==
  [client |-> g.client, calls |-> Append(g.calls, c), exc |-> x.exc, ret |-> x.ret]

ReadOneRequest(g, defn, rr) ==
  ReadOneResult(g, Call(ReadFn(defn.table), defn.table, defn.offset, 1, <<>>, rr),
                ReadOneResponse(defn, rr))

ReadOneClient(g, defn, beh) ==
  IF g.exc.type # ""
  THEN [client |-> g.client, calls |-> g.calls, exc |-> g.exc, ret |-> <<>>]
  ELSE ReadOneRequest(g, defn, Respond(beh, 1, defn.table, defn.offset, 1))

\* _read_one(defn)
read_one(cl, defn, beh) == ReadOneClient(get_client(cl, beh), defn, beh)

\* the tables _write_one has a primitive for
Writable(table) == table \in {COIL, HOLDING_REGISTER}

WriteFn(table) == IF table = COIL THEN "write_coil" ELSE "write_register"

\* variant: the value is handed on as the caller gave it
WriteArgAsGiven(table, value) == value

\* the argument handed to the primitive: bool(value) or int(value)
WriteArg(table, value) == IF table = COIL THEN PyBool(value) ELSE PyInt(value)

\* the answer to a write request
RespondWrite(beh) ==
  IF beh.failAt = 1 /\ beh.kind = "raise" THEN [kind |-> "raise", values |-> <<>>]
  ELSE IF beh.failAt = 1 /\ beh.kind = "error" THEN [kind |-> "error", values |-> <<>>]
  ELSE [kind |-> "ok", values |-> <<>>]

WriteOneResponse(defn, rr) ==
  IF rr.kind = "raise" THEN PymodbusException
  ELSE IF rr.kind = "error" THEN RequestError(defn.operand, defn.table, defn.offset)
  ELSE NoExc

WriteOneRequest(g, defn, value, rr) ==
  [client |-> g.client,
   calls |-> Append(g.calls, Call(WriteFn(defn.table), defn.table, defn.offset, 1,
                                  <<WriteArg(defn.table, value)>>, rr)),
   exc |-> WriteOneResponse(defn, rr)]

WriteOneClient(g, defn, value, beh) ==
  IF g.exc.type # ""
  THEN [client |-> g.client, calls |-> g.calls, exc |-> g.exc]
  ELSE IF ~Writable(defn.table)
  THEN [client |-> g.client, calls |-> g.calls,
        exc |-> RequestError(defn.operand, defn.table, defn.offset)]
  ELSE WriteOneRequest(g, defn, value, RespondWrite(beh))

\* _write_one(defn, value): the client is fetched first, then the table decides
write_one(cl, defn, value, beh) == WriteOneClient(get_client(cl, beh), defn, value, beh)

\* variant: a failing tag discards what the call has cached
ResolveNextForgetting(before, r) ==
  IF r.exc.type # ""
  THEN [exc |-> r.exc, cache |-> {}, defs |-> before.defs,
        looked |-> before.looked \o r.looked]
  ELSE [exc |-> NoExc, cache |-> r.cache, defs |-> Append(before.defs, r.defn[1]),
        looked |-> before.looked \o r.looked]

\* read_many, first loop: one tag after the tags before it
ResolveNext(before, r) ==
  IF r.exc.type # ""
  THEN [exc |-> r.exc, cache |-> r.cache, defs |-> before.defs,
        looked |-> before.looked \o r.looked]
  ELSE [exc |-> NoExc, cache |-> r.cache, defs |-> Append(before.defs, r.defn[1]),
        looked |-> before.looked \o r.looked]

ResolveStep(before, by_op, tag) ==
  IF before.exc.type # "" THEN before
  ELSE ResolveNext(before, resolve(before.cache, by_op, tag))

\* read_many, first loop: resolve the first k tags in order, stop at the
\* first that fails
RECURSIVE ResolveAll(_, _, _, _)
ResolveAll(ca, by_op, tags, k) ==
  IF k = 0 THEN [exc |-> NoExc, cache |-> ca, defs |-> <<>>, looked |-> <<>>]
  ELSE ResolveStep(ResolveAll(ca, by_op, tags, k - 1), by_op, tags[k])

\* dict assignment d[k] = v
DictSet(d, k, v) == [x \in DOMAIN d \cup {k} |-> IF x = k THEN v ELSE d[x]]

\* d[k] of a defaultdict
DictGet(d, k, default) == IF k \in DOMAIN d THEN d[k] ELSE default

\* by_table[defn.table][defn.offset] = defn.operand
ByTableSet(bt, defn) ==
  DictSet(bt, defn.table, DictSet(DictGet(bt, defn.table, <<>>), defn.offset, defn.operand))

\* operand_to_originals[defn.operand].append(t)
OriginalsAdd(o2o, defn, t) ==
  DictSet(o2o, defn.operand, Append(DictGet(o2o, defn.operand, <<>>), t))

GroupStep(before, defn, t) ==
  [o2o   |-> OriginalsAdd(before.o2o, defn, t),
   bt    |-> ByTableSet(before.bt, defn),
   order |-> IF defn.table \in DOMAIN before.bt THEN before.order
             ELSE Append(before.order, defn.table)]

\* read_many, first loop: operand_to_originals, by_table and the order in
\* which the tables were first seen (dict iteration order)
RECURSIVE Group(_, _, _)
Group(tags, defs, k) ==
  IF k = 0 THEN [o2o |-> <<>>, bt |-> <<>>, order |-> <<>>]
  ELSE GroupStep(Group(tags, defs, k - 1), defs[k], tags[k])

TableRanges(table, ranges) ==
  [i \in 1..Len(ranges) |->
     [table |-> table, start |-> ranges[i].start,
      count |-> ranges[i].count, group |-> ranges[i].group]]

\* the ranges of all tables in the order the two nested loops visit them
RECURSIVE Plan(_, _, _)
Plan(bt, order, k) ==
  IF k = 0 THEN <<>>
  ELSE Plan(bt, order, k - 1) \o TableRanges(order[k], coalesce_ranges(bt[order[k]]))

\* `for orig in operand_to_originals[op]: out[orig] = val`
RECURSIVE AssignAll(_, _, _, _)
AssignAll(out, origs, k, val) ==
  IF k = 0 THEN out
  ELSE DictSet(AssignAll(out, origs, k - 1, val), origs[k], val)

\* the response element assigned to group member i (rr.bits[i], 0-based there)
ElementFor(values, i) == values[i]

DemuxStep(before, table, origs, values, k) ==
  IF before.exc.type # "" THEN before
  ELSE IF k > Len(values) THEN [out |-> before.out, exc |-> IndexError]
  ELSE [out |-> AssignAll(before.out, origs, Len(origs), Decode(table, ElementFor(values, k))),
        exc |-> NoExc]

\* `for i, (_off, op) in enumerate(group)`: the first k members
RECURSIVE Demux(_, _, _, _, _, _)
Demux(out, table, group, values, o2o, k) ==
  IF k = 0 THEN [out |-> out, exc |-> NoExc]
  ELSE DemuxStep(Demux(out, table, group, values, o2o, k - 1),
                 table, o2o[group[k][2]], values, k)

RangeResult(d, c) == [out |-> d.out, exc |-> d.exc, call |-> c]

RangeResponse(out, r, o2o, rr, c) ==
  IF rr.kind \in {"raise", "error"} \/ ShortResponse(rr.values, r.count)
  THEN [out |-> out, exc |-> RequestError(r.group[1][2], r.table, r.start), call |-> c]
  ELSE RangeResult(Demux(out, r.table, r.group, rr.values, o2o, Len(r.group)), c)

RangeRequest(out, r, o2o, rr) ==
  RangeResponse(out, r, o2o, rr, Call(ReadFn(r.table), r.table, r.start, r.count, <<>>, rr))

\* one iteration of the inner loop: the request for range r, the n-th of
\* the call
ReadRange(out, r, n, o2o, beh) ==
  RangeRequest(out, r, o2o, Respond(beh, n, r.table, r.start, r.count))

\* variant: the loops go on to the next range whatever happened
ContinueAlways(exc) == TRUE

\* whether the loops go on after a request
ContinueAfter(exc) == exc.type = ""

ExecNext(before, r) ==
  [out |-> r.out,
   exc |-> IF before.exc.type # "" THEN before.exc ELSE r.exc,
   calls |-> Append(before.calls, r.call)]

ExecStep(before, r, n, o2o, beh) ==
  IF ~ContinueAfter(before.exc) THEN before
  ELSE ExecNext(before, ReadRange(before.out, r, n, o2o, beh))

\* the two nested loops over the first k ranges of the plan
RECURSIVE ExecRanges(_, _, _, _)
ExecRanges(plan, o2o, beh, k) ==
  IF k = 0 THEN [out |-> <<>>, exc |-> NoExc, calls |-> <<>>]
  ELSE ExecStep(ExecRanges(plan, o2o, beh, k - 1), plan[k], k, o2o, beh)

ReadManyResult(rs, g, x) ==
  [cache |-> rs.cache, looked |-> rs.looked, client |-> g.client, calls |-> g.calls \o x.calls,
   exc |-> x.exc, out |-> x.out]

\* the grouping of the resolved tags (nothing when a tag did not resolve)
GroupResolved(rs, tags) ==
  IF rs.exc.type # "" THEN [o2o |-> <<>>, bt |-> <<>>, order |-> <<>>]
  ELSE Group(tags, rs.defs, Len(tags))

\* the ranges of the grouped tags
PlanGrouped(gr) == Plan(gr.bt, gr.order, Len(gr.order))

\* the loops over tables and ranges, once the client is there
ReadManyClient(rs, g, gr, plan, beh) ==
  IF g.exc.type # ""
  THEN [cache |-> rs.cache, looked |-> rs.looked, client |-> g.client, calls |-> g.calls, exc |-> g.exc,
        out |-> <<>>]
  ELSE ReadManyResult(rs, g, ExecRanges(plan, gr.o2o, beh, Len(plan)))

\* variant: the client is fetched before the resolution errors are raised
ReadManyClientFirst(rs, cl, gr, plan, beh) ==
  IF rs.exc.type # ""
  THEN [cache |-> rs.cache, looked |-> rs.looked, client |-> get_client(cl, beh).client,
        calls |-> get_client(cl, beh).calls, exc |-> rs.exc, out |-> <<>>]
  ELSE ReadManyClient(rs, get_client(cl, beh), gr, plan, beh)

\* read_many after the resolution loop (rs), with the grouping gr and the
\* ranges plan that the loop has built: a resolution error is raised before
\* the client is fetched
ReadManyResolved(rs, cl, gr, plan, beh) ==
  IF rs.exc.type # ""
  THEN [cache |-> rs.cache, looked |-> rs.looked, client |-> cl, calls |-> <<>>, exc |-> rs.exc, out |-> <<>>]
  ELSE ReadManyClient(rs, get_client(cl, beh), gr, plan, beh)

ReadManyGrouped(rs, cl, gr, beh) == ReadManyResolved(rs, cl, gr, PlanGrouped(gr), beh)

ReadManyGroup(rs, cl, tags, beh) == ReadManyGrouped(rs, cl, GroupResolved(rs, tags), beh)

\* read_many(tags) for a non-empty list: resolve all, fetch the client, read
\* range by range
read_many(ca, by_op, cl, tags, beh) ==
  ReadManyGroup(ResolveAll(ca, by_op, tags, Len(tags)), cl, tags, beh)

(***************************************************************************)
(* The client's operations as actions.  A call is made when no call is in  *)
(* progress; Return hands the result to the caller.                        *)
(***************************************************************************)
Init ==
  /\ by_operand = TagMapInit(MapEntries)
  /\ cache = {}
  /\ client = "None"
  /\ last = Idle
  /\ calls = <<>>
  /\ ops = 0
  /\ norm = <<>>
  /\ lookups = EmptyBag
  /\ poll = NoPoll

CanCall == last.op = "idle" /\ ops < MaxOps

\* the calls of TagMap.lookup that returned, as a bag of tags
Looked(tags) ==
  [t \in {tags[i] : i \in DOMAIN tags} |-> Cardinality({i \in DOMAIN tags : tags[i] = t})]

\* the state after a call that ended with x, but for the generator
Finished(op, tags, value, x) ==
  /\ cache' = x.cache
  /\ client' = x.client
  /\ calls' = x.calls
  /\ last' = [op |-> op, tags |-> tags, value |-> value,
              outcome |-> IF x.exc.type = "" THEN "return" ELSE "raise",
              exc |-> x.exc, ret |-> IF x.exc.type = "" THEN x.ret ELSE <<>>,
              out |-> x.out]
  /\ ops' = ops + 1
  /\ lookups' = lookups (+) Looked(x.looked)
  /\ UNCHANGED <<by_operand, norm>>

\* the state after a call that ended with x
Finish(op, tags, value, x) == Finished(op, tags, value, x) /\ UNCHANGED poll

ReadDone(r, x) ==
  [cache |-> r.cache, looked |-> r.looked, client |-> x.client, calls |-> x.calls, exc |-> x.exc,
   ret |-> x.ret, out |-> <<>>]

ReadResolved(tag, r) ==
  IF r.exc.type # ""
  THEN Finish("read", <<tag>>, <<>>,
              [cache |-> r.cache, looked |-> r.looked, client |-> client, calls |-> <<>>, exc |-> r.exc,
               ret |-> <<>>, out |-> <<>>])
  ELSE \E beh \in BehavioursFor(client = "None", 1) :
         Finish("read", <<tag>>, <<>>, ReadDone(r, read_one(client, r.defn[1], beh)))

\* read(tag)
Read(tag) ==
  /\ CanCall
  /\ ReadResolved(tag, resolve(cache, by_operand, tag))

WriteDone(r, x) ==
  [cache |-> r.cache, looked |-> r.looked, client |-> x.client, calls |-> x.calls, exc |-> x.exc,
   ret |-> <<>>, out |-> <<>>]

WriteResolved(tag, value, r) ==
  IF r.exc.type # ""
  THEN Finish("write", <<tag>>, <<value>>,
              [cache |-> r.cache, looked |-> r.looked, client |-> client, calls |-> <<>>, exc |-> r.exc,
               ret |-> <<>>, out |-> <<>>])
  ELSE \E beh \in BehavioursFor(client = "None",
                                IF Writable(r.defn[1].table) THEN 1 ELSE 0) :
         Finish("write", <<tag>>, <<value>>,
                WriteDone(r, write_one(client, r.defn[1], value, beh)))

\* write(tag, value)
Write(tag, value) ==
  /\ CanCall
  /\ WriteResolved(tag, value, resolve(cache, by_operand, tag))

ReadManyDone(x) ==
  [cache |-> x.cache, looked |-> x.looked, client |-> x.client, calls |-> x.calls, exc |-> x.exc,
   ret |-> x.out, out |-> x.out]

\* read_many against each behaviour of the transport that differs for the
\* requests the call makes (one per range of the plan)
ReadManyPlanned(tags, rs, gr, plan) ==
  \E beh \in BehavioursFor(client = "None" /\ Len(plan) > 0, Len(plan)) :
    Finish("read_many", tags, <<>>, ReadManyDone(ReadManyResolved(rs, client, gr, plan, beh)))

ReadManyGroupedTags(tags, rs, gr) == ReadManyPlanned(tags, rs, gr, PlanGrouped(gr))

ReadManyResolvedTags(tags, rs) == ReadManyGroupedTags(tags, rs, GroupResolved(rs, tags))

\* read_many(tags)
ReadMany(tags) ==
  /\ CanCall
  /\ ReadManyResolvedTags(tags, ResolveAll(cache, by_operand, tags, Len(tags)))

\* read_many([])
ReadManyEmpty ==
  /\ CanCall
  /\ Finish("read_many", <<>>, <<>>,
            [cache |-> cache, looked |-> <<>>, client |-> client, calls |-> <<>>, exc |-> NoExc,
             ret |-> <<>>, out |-> <<>>])

CloseCall(ok) ==
  Call("close", "", 0, 0, <<>>, [kind |-> IF ok THEN "ok" ELSE "raise", values |-> <<>>])

\* variant: an error of the handle's close() keeps the handle
closeKeeping(cl, closeOk) ==
  IF cl = "None" THEN [client |-> "None", exc |-> NoExc, calls |-> <<>>]
  ELSE [client |-> IF closeOk THEN "None" ELSE cl, exc |-> NoExc,
        calls |-> <<CloseCall(closeOk)>>]

\* close(): the handle's close() is called if there is a handle; an error
\* of it is logged, not raised, and the handle is dropped
close(cl, closeOk) ==
  IF cl = "None" THEN [client |-> "None", exc |-> NoExc, calls |-> <<>>]
  ELSE [client |-> "None", exc |-> NoExc, calls |-> <<CloseCall(closeOk)>>]

\* the state after connect(), close(), __enter__() or __exit__() ended
\* with g: these calls take no tag and touch the handle only
Managed(op, g) ==
  /\ client' = g.client
  /\ calls' = g.calls
  /\ last' = [op |-> op, tags |-> <<>>, value |-> <<>>,
              outcome |-> IF g.exc.type = "" THEN "return" ELSE "raise",
              exc |-> g.exc, ret |-> <<>>, out |-> <<>>]
  /\ UNCHANGED <<by_operand, cache, ops, norm, lookups, poll>>

\* close(), with a handle whose close() returns or raises
Close ==
  /\ last.op = "idle"
  /\ \E closeOk \in IF client = "None" THEN {TRUE} ELSE BOOLEAN :
       Managed("close", close(client, closeOk))

\* __exit__(): close()
Exit ==
  /\ last.op = "idle"
  /\ \E closeOk \in IF client = "None" THEN {TRUE} ELSE BOOLEAN :
       Managed("__exit__", close(client, closeOk))

\* connect(): _get_client()
Connect ==
  /\ last.op = "idle"
  /\ \E beh \in BehavioursFor(client = "None", 0) :
       Managed("connect", get_client(client, beh))

\* __enter__(): connect()
Enter ==
  /\ last.op = "idle"
  /\ \E beh \in BehavioursFor(client = "None", 0) :
       Managed("__enter__", get_client(client, beh))

\* the name explain() reports for a table
ExplainFn(table) ==
  IF table \in ModbusTable THEN ReadFn(table) ELSE "unknown"

ExplainInfo(tag, defn) ==
  [normalized_tag |-> tag, table |-> defn.table, offset |-> defn.offset,
   width |-> defn.width, function_used |-> ExplainFn(defn.table)]

ExplainResolved(tag, n, r) ==
  Finish("explain", <<tag>>, <<>>,
         [cache |-> r.cache, looked |-> r.looked, client |-> client, calls |-> <<>>,
          exc |-> r.exc,
          ret |-> IF r.exc.type = "" THEN <<ExplainInfo(n.tag, r.defn[1])>> ELSE <<>>,
          out |-> <<>>])

ExplainNormalized(tag, n) ==
  IF n.err # ""
  THEN Finish("explain", <<tag>>, <<>>,
              [cache |-> cache, looked |-> <<>>, client |-> client, calls |-> <<>>,
               exc |-> InvalidTagError(tag), ret |-> <<>>, out |-> <<>>])
  ELSE ExplainResolved(tag, n, resolve(cache, by_operand, tag))

\* explain(tag): normalize_tag(tag), then _resolve(tag); no transport
Explain(tag) ==
  /\ CanCall
  /\ ExplainNormalized(tag, normalize_tag(tag))

\* the caller takes the result or the exception; the client is idle again
Return ==
  /\ last.op # "idle"
  /\ last' = Idle
  /\ calls' = <<>>
  /\ UNCHANGED <<by_operand, cache, client, ops, norm, lookups, poll>>

Next ==
  \/ \E tag \in RawTags : Read(tag)
  \/ \E tag \in RawTags, value \in WriteValues : Write(tag, value)
  \/ \E tags \in TagLists(RawTags, MaxTags) : ReadMany(tags)
  \/ ReadManyEmpty
  \/ Close
  \/ Return

Spec == Init /\ [][Next]_vars

\* the client used with tags that all resolve
NextRange ==
  \/ \E tag \in RangeTags : Read(tag)
  \/ \E tag \in RangeTags, value \in WriteValues : Write(tag, value)
  \/ \E tags \in TagLists(RangeTags, MaxTags) : ReadMany(tags)
  \/ ReadManyEmpty
  \/ Close
  \/ Return

SpecRange == Init /\ [][NextRange]_vars

\* the client used with tags of three tables and with tags that do not
\* resolve
NextMixed ==
  \/ \E tag \in MixedTags : Read(tag)
  \/ \E tag \in MixedTags, value \in WriteValues : Write(tag, value)
  \/ \E tags \in TagLists(MixedTags, MaxTags) : ReadMany(tags)
  \/ ReadManyEmpty
  \/ Close
  \/ Return

SpecMixed == Init /\ [][NextMixed]_vars

\* what a generator does, in order: a read_many with its result (none if it
\* raised), a result handed to the consumer, a sleep
PollEvent(ev, tags, out, secs) == [ev |-> ev, tags |-> tags, out |-> out, secs |-> secs]

\* time.sleep(secs) raises ValueError for a negative length
SleepError(secs) == IF secs < 0 THEN PyError("ValueError") ELSE NoExc

\* poll_iter(tags, interval_s): a generator function, its body does not run
\* before the first next()
PollIter(tags, interval) ==
  /\ last.op = "idle"
  /\ poll.pc = "none"
  /\ poll' = [pc |-> "start", tags |-> tags, interval |-> interval, events |-> <<>>]
  /\ last' = [op |-> "poll_iter", tags |-> tags, value |-> <<interval>>,
              outcome |-> "return", exc |-> NoExc, ret |-> <<>>, out |-> <<>>]
  /\ calls' = <<>>
  /\ UNCHANGED <<by_operand, cache, client, ops, norm, lookups>>

\* variant: the generator sleeps before every read_many
PollEventsSleepFirst(pc, tags, interval, x) ==
  <<PollEvent("sleep", <<>>, <<>>, interval)>>
  \o (IF x.exc.type = ""
      THEN <<PollEvent("read_many", tags, <<x.out>>, 0), PollEvent("yield", <<>>, <<x.out>>, 0)>>
      ELSE <<PollEvent("read_many", tags, <<>>, 0)>>)

\* what the generator does from where it was suspended to the end of a
\* read_many that ended with x: the sleep after a yield, the read_many, and
\* the yield of its result
PollEvents(pc, tags, interval, x) ==
  (IF pc = "yielded" THEN <<PollEvent("sleep", <<>>, <<>>, interval)>> ELSE <<>>)
  \o (IF x.exc.type = ""
      THEN <<PollEvent("read_many", tags, <<x.out>>, 0), PollEvent("yield", <<>>, <<x.out>>, 0)>>
      ELSE <<PollEvent("read_many", tags, <<>>, 0)>>)

\* next(): the generator runs to its next yield, or the exception of
\* read_many ends it
PollResumed(x) ==
  /\ Finished("next", poll.tags, <<>>, ReadManyDone(x))
  /\ poll' = [poll EXCEPT !.pc = IF x.exc.type = "" THEN "yielded" ELSE "done",
                          !.events = @ \o PollEvents(poll.pc, poll.tags, poll.interval, x)]

PollPlanned(rs, gr, plan) ==
  \E beh \in BehavioursFor(client = "None" /\ Len(plan) > 0, Len(plan)) :
    PollResumed(ReadManyResolved(rs, client, gr, plan, beh))

PollGrouped(rs, gr) == PollPlanned(rs, gr, PlanGrouped(gr))

PollResolved(rs) == PollGrouped(rs, GroupResolved(rs, poll.tags))

\* next() on a generator that a failed sleep ends, or that has ended
PollEnded(type, pc, events) ==
  /\ Finished("next", poll.tags, <<>>,
              [cache |-> cache, looked |-> <<>>, client |-> client, calls |-> <<>>,
               exc |-> PyError(type), ret |-> <<>>, out |-> <<>>])
  /\ poll' = [poll EXCEPT !.pc = pc, !.events = @ \o events]

\* next(generator): `while True: yield self.read_many(tags); time.sleep(interval_s)`
PollNext ==
  /\ CanCall
  /\ poll.pc # "none"
  /\ IF poll.pc = "done" THEN PollEnded("StopIteration", "done", <<>>)
     ELSE IF poll.pc = "yielded" /\ SleepError(poll.interval).type # ""
     THEN PollEnded(SleepError(poll.interval).type, "done",
                    <<PollEvent("sleep", <<>>, <<>>, poll.interval)>>)
     ELSE PollResolved(ResolveAll(cache, by_operand, poll.tags, Len(poll.tags)))

\* raw tag strings for polling: two spellings of one register, a coil and
\* an unknown operand
PollTags == { <<"d","7">>, <<"D","0","0","0","7">>, <<"m","1","2">>, <<"X","9">> }

\* the tag lists callers poll: one tag, a register by its canonical tag
\* with a coil, and a list with an unknown operand
PollLists ==
  { << <<"d","7">> >>,
    << <<"D","0","0","0","7">>, <<"m","1","2">> >>,
    << <<"m","1","2">>, <<"X","9">> >> }

\* the intervals callers poll with
PollIntervals == {0 - 1, 1}

\* one client that is polled, with the other operations in between
NextPoll ==
  \/ \E tag \in PollTags : Read(tag)
  \/ \E tag \in PollTags, value \in {PyTrue, PyIntOf(100)} : Write(tag, value)
  \/ \E tags \in TagLists(PollTags, MaxTags) : ReadMany(tags)
  \/ \E tag \in PollTags : Explain(tag)
  \/ \E tags \in PollLists, interval \in PollIntervals : PollIter(tags, interval)
  \/ PollNext
  \/ Close
  \/ Return

SpecPoll == Init /\ [][NextPoll]_vars

\* read(tag) after the resolution r
ReadOutcome(r, beh) ==
  IF r.exc.type # ""
  THEN [cache |-> r.cache, looked |-> r.looked, client |-> client, calls |-> <<>>,
        exc |-> r.exc, ret |-> <<>>, out |-> <<>>]
  ELSE ReadDone(r, read_one(client, r.defn[1], beh))

\* the state after read(tag) ended with x, with how read_many([tag]) ends
\* from the same state against the same transport
ReadCompared(tag, x, many) ==
  /\ cache' = x.cache
  /\ client' = x.client
  /\ calls' = x.calls
  /\ last' = [op |-> "read/read_many", tags |-> <<tag>>, value |-> <<>>,
              outcome |-> IF x.exc.type = "" THEN "return" ELSE "raise",
              exc |-> x.exc, ret |-> x.ret, out |-> <<>>,
              many |-> [exc |-> many.exc, out |-> many.out, calls |-> many.calls,
                        cache |-> many.cache, client |-> many.client]]
  /\ ops' = ops + 1
  /\ lookups' = lookups (+) Looked(x.looked)
  /\ UNCHANGED <<by_operand, norm, poll>>

ReadBothResolved(tag, r, rs) ==
  \E beh \in BehavioursFor(client = "None", 1) :
    ReadCompared(tag, ReadOutcome(r, beh), ReadManyGroup(rs, client, <<tag>>, beh))

\* read(tag) and read_many([tag]), each from the present state
ReadBoth(tag) ==
  /\ CanCall
  /\ ReadBothResolved(tag, resolve(cache, by_operand, tag),
                      ResolveAll(cache, by_operand, <<tag>>, 1))

\* raw tag strings of one session: two spellings of one register, a coil,
\* an unknown operand and a malformed tag
SessionTags ==
  { <<"d","7">>, <<"D","0","0","0","7">>, <<"m","1","2">>, <<"X","9">>, <<"d"," ","7">> }

\* one client over its lifetime: connecting, closing, with-blocks and
\* every operation in between
NextSession ==
  \/ \E tag \in SessionTags : Read(tag)
  \/ \E tag \in SessionTags, value \in {PyTrue, PyIntOf(100)} : Write(tag, value)
  \/ \E tags \in TagLists(SessionTags, MaxTags) : ReadMany(tags)
  \/ \E tag \in SessionTags : Explain(tag)
  \/ \E tag \in SessionTags : ReadBoth(tag)
  \/ Connect
  \/ Close
  \/ Enter
  \/ Exit
  \/ Return

SpecSession == Init /\ [][NextSession]_vars

(***************************************************************************)
(* cli.py: the 16-bit sign conversions, each applied to every value of its *)
(* domain and then the other one to the result.                            *)
(***************************************************************************)
\* variant: the threshold is one too high
to_signedAbove32768(value) == IF value > 32768 THEN value - 65536 ELSE value

\* to_signed(value)
to_signed(value) == IF value > 32767 THEN value - 65536 ELSE value

\* from_signed(value)
from_signed(value) == IF value < 0 THEN value + 65536 ELSE value

\* the unsigned and the signed 16-bit values
Unsigned16 == 0..65535

Signed16 == (0 - 32768)..32767

\* a conversion of arg; from holds the value arg was converted from, if any
Converted(fn, arg, ret, from) ==
  [op |-> fn, tags |-> <<>>, value |-> <<arg>>, outcome |-> "return", exc |-> NoExc,
   ret |-> <<ret>>, out |-> from]

Convert(l) ==
  /\ last' = l
  /\ UNCHANGED <<by_operand, cache, client, calls, ops, norm, lookups, poll>>

ToSigned ==
  /\ last.op = "idle"
  /\ \E u \in Unsigned16 : Convert(Converted("to_signed", u, to_signed(u), <<>>))

FromSigned ==
  /\ last.op = "idle"
  /\ \E v \in Signed16 : Convert(Converted("from_signed", v, from_signed(v), <<>>))

\* from_signed(to_signed(u))
FromSignedBack ==
  /\ last.op = "to_signed"
  /\ last.out = <<>>
  /\ Convert(Converted("from_signed", last.ret[1], from_signed(last.ret[1]), last.value))

\* to_signed(from_signed(v))
ToSignedBack ==
  /\ last.op = "from_signed"
  /\ last.out = <<>>
  /\ Convert(Converted("to_signed", last.ret[1], to_signed(last.ret[1]), last.value))

NextSigned ==
  \/ ToSigned
  \/ FromSigned
  \/ FromSignedBack
  \/ ToSignedBack
  \/ Return

SpecSigned == Init /\ [][NextSigned]_vars

(***************************************************************************)
(* cli.py: a command runs in a process of its own, on a client it creates. *)
(* The outcome of a command's try block is the exception it ends with (or  *)
(* none), the exit code of the typer.Exit it raised (if it raised one),    *)
(* the client it leaves, and what it printed.                              *)
(***************************************************************************)
\* typer.Exit, a RuntimeError
TyperExit == PyError("Exit")

\* the client of a new process
Fresh == [cache |-> {}, client |-> "None", calls |-> <<>>, looked |-> <<>>]

Ran(exc, intended, x, out, errors, passed) ==
  [exc |-> exc, intended |-> intended, cache |-> x.cache, client |-> x.client,
   calls |-> x.calls, looked |-> x.looked, out |-> out, errors |-> errors,
   passed |-> passed]

\* create_client without --host: `raise typer.Exit(2)`
NoHost == Ran(TyperExit, <<2>>, Fresh, <<>>, <<>>, <<>>)

\* `with client:` whose __enter__ raised: the block and __exit__ do not run
NotEntered(g) ==
  Ran(g.exc, <<>>, [Fresh EXCEPT !.client = g.client, !.calls = g.calls], <<>>, <<>>, <<>>)

\* `with client:` after the block ended with r: __exit__ closes the client
Exited(r, closeOk) ==
  [r EXCEPT !.client = "None", !.calls = @ \o <<CloseCall(closeOk)>>]

\* `with client:` once __enter__ has connected
Entered(x) == [x EXCEPT !.calls = <<ConnectCall(TRUE)>> \o @]

\* the except clauses of a command, and the exit code of the typer.Exit
\* they raise: typer.Exit itself is caught by `except Exception`
ExitCode(exc) ==
  CASE exc.type = "" -> 0
    [] exc.type \in {"InvalidTagError", "UnknownTagError"} -> 2
    [] exc.type = "ModbusIOError" -> 3
    [] OTHER -> 4

\* parse_bool(value)
parse_bool(value) ==
  IF Strip(LowerStr(value)) \in {<<"t","r","u","e">>, <<"1">>, <<"o","n">>, <<"y","e","s">>}
  THEN [err |-> "", val |-> PyTrue]
  ELSE IF Strip(LowerStr(value)) \in {<<"f","a","l","s","e">>, <<"0">>, <<"o","f","f">>, <<"n","o">>}
       THEN [err |-> "", val |-> PyFalse]
       ELSE [err |-> "ValueError", val |-> PyFalse]

HexChars == DigitChars \o <<"a","b","c","d","e","f">>

\* the value of a run of digits of the base
RECURSIVE DigitsValue(_, _)
DigitsValue(s, base) ==
  IF s = <<>> THEN 0
  ELSE base * DigitsValue(SubSeq(s, 1, Len(s) - 1), base)
       + (CHOOSE i \in 1..base : HexChars[i] = Lower(s[Len(s)])) - 1

\* int(v, base) for a literal of ASCII characters: a sign (base 10) or 0x
\* (base 16), then one or more digits; ValueError otherwise
IntLiteral(sign, digits, base) ==
  IF digits # <<>> /\ \A i \in 1..Len(digits) : \E d \in 1..base : HexChars[d] = Lower(digits[i])
  THEN [err |-> "", num |-> sign * DigitsValue(digits, base)]
  ELSE [err |-> "ValueError", num |-> 0]

IntOfStripped(v) ==
  IF Len(v) >= 2 /\ LowerStr(SubSeq(v, 1, 2)) = <<"0","x">>
  THEN IntLiteral(1, SubSeq(v, 3, Len(v)), 16)
  ELSE IF v # <<>> /\ v[1] \in {"-", "+"}
       THEN IntLiteral(IF v[1] = "-" THEN 0 - 1 ELSE 1, Tail(v), 10)
       ELSE IntLiteral(1, v, 10)

\* the range check of parse_int
InRange(n, signed) ==
  IF n.err # "" THEN n
  ELSE IF signed /\ ~(0 - 32768 <= n.num /\ n.num <= 32767) THEN [err |-> "ValueError", num |-> 0]
  ELSE IF ~signed /\ ~(0 <= n.num /\ n.num <= 65535) THEN [err |-> "ValueError", num |-> 0]
  ELSE n

\* parse_int(value, signed)
parse_int(value, signed) == InRange(IntOfStripped(Strip(value)), signed)

\* write: the value is parsed as a bool, or else as an int (a negative one
\* is converted with from_signed), or else `raise typer.Exit(2)`
ParsedInt(n, signed) ==
  IF n.err # "" THEN [err |-> "Exit", val |-> PyFalse]
  ELSE [err |-> "", val |-> PyIntOf(IF signed /\ n.num < 0 THEN from_signed(n.num) ELSE n.num)]

ParseValue(value, signed) ==
  IF parse_bool(value).err = "" THEN parse_bool(value)
  ELSE ParsedInt(parse_int(value, signed), signed)

\* read-many --partial, first loop: a tag is valid if normalize_tag and
\* TagMap.lookup accept it, the others get an entry of errors
ValidateTag(v, tag, n) ==
  IF n.err # "" THEN [v EXCEPT !.errors = DictSet(@, tag, "invalid")]
  ELSE IF lookup(by_operand, n.tag).err # ""
       THEN [v EXCEPT !.errors = DictSet(@, tag, "unknown")]
       ELSE [v EXCEPT !.valid = Append(@, tag)]

RECURSIVE Validate(_, _)
Validate(tags, k) ==
  IF k = 0 THEN [valid |-> <<>>, errors |-> <<>>]
  ELSE ValidateTag(Validate(tags, k - 1), tags[k], normalize_tag(tags[k]))

\* errors[tag] = "Modbus error: ..." for each of the first k valid tags
RECURSIVE MarkErrored(_, _, _)
MarkErrored(errors, valid, k) ==
  IF k = 0 THEN errors
  ELSE DictSet(MarkErrored(errors, valid, k - 1), valid[k], "modbus")

\* `to_signed(val) if isinstance(val, int) else val` for each result: a bool
\* is an int
SignedResults(signed, out) ==
  IF signed THEN [t \in DOMAIN out |-> [out[t] EXCEPT !.v = to_signed(@)]] ELSE out

\* the tags handed to read_many, if it was called
Passed(partial, valid) == IF partial /\ valid = <<>> THEN <<>> ELSE <<valid>>

\* read-many, the block under `with client:`, after read_many ended with x
ReadManyBlock(args, v, x) ==
  IF x.exc.type = ""
  THEN Ran(NoExc, <<>>, x, SignedResults(args.signed, x.out), v.errors,
           Passed(args.partial, v.valid))
  ELSE IF args.partial /\ x.exc.type = "ModbusIOError"
       THEN Ran(NoExc, <<>>, x, <<>>, MarkErrored(v.errors, v.valid, Len(v.valid)),
                Passed(args.partial, v.valid))
       ELSE Ran(x.exc, <<>>, x, <<>>, <<>>, Passed(args.partial, v.valid))

\* write, after client.write ended with x
CliWritten(x) == Ran(x.exc, <<>>, x, <<>>, <<>>, <<>>)

\* the process ends with the exit code of the typer.Exit that leaves the
\* command (0 if none does)
CommandDone(cmd, tags, args, r) ==
  /\ last' = [op |-> cmd, tags |-> tags, value |-> <<args>>, outcome |-> "exit",
              exc |-> r.exc, ret |-> <<>>, out |-> r.out, errors |-> r.errors,
              passed |-> r.passed, intended |-> r.intended, code |-> ExitCode(r.exc)]
  /\ cache' = r.cache
  /\ client' = r.client
  /\ calls' = r.calls
  /\ lookups' = lookups (+) Looked(r.looked)
  /\ UNCHANGED <<by_operand, ops, norm, poll>>

CliReadManyPlanned(tags, args, v, rs, gr, plan) ==
  \E beh \in BehavioursFor(FALSE, Len(plan)), closeOk \in BOOLEAN :
    CommandDone("read-many", tags, args,
                Exited(Entered(ReadManyBlock(args, v,
                                             ReadManyResolved(rs, "Connected", gr, plan,
                                                              beh))),
                       closeOk))

CliReadManyGrouped(tags, args, v, rs, gr) ==
  CliReadManyPlanned(tags, args, v, rs, gr, PlanGrouped(gr))

CliReadManyResolved(tags, args, v, rs) ==
  CliReadManyGrouped(tags, args, v, rs, GroupResolved(rs, v.valid))

CliReadManyValidated(tags, args, v) ==
  CliReadManyResolved(tags, args, v, ResolveAll({}, by_operand, v.valid, Len(v.valid)))

\* the tags a command takes
CliTags ==
  { <<"d","7">>, <<"m","1","2">>, <<"Q","1","2">>, <<"X","9">>, <<"d"," ","7">> }

\* pyidec read-many [--host H] [--partial] [--signed] TAGS...
CliReadMany ==
  /\ last.op = "idle"
  /\ \E tags \in TagLists(CliTags, MaxTags),
        args \in [host : BOOLEAN, partial : BOOLEAN, signed : BOOLEAN] :
       IF ~args.host THEN CommandDone("read-many", tags, args, NoHost)
       ELSE \/ CommandDone("read-many", tags, args,
                           NotEntered(get_client("None", [connectOk |-> FALSE])))
            \/ CliReadManyValidated(tags, args,
                                    IF args.partial THEN Validate(tags, Len(tags))
                                    ELSE [valid |-> tags, errors |-> <<>>])

\* write, the block under `with client:`
CliWriteResolved(tag, args, val, r) ==
  IF r.exc.type # ""
  THEN \E closeOk \in BOOLEAN :
         CommandDone("write", <<tag>>, args,
                     Exited(Entered(Ran(r.exc, <<>>, [Fresh EXCEPT !.client = "Connected"],
                                        <<>>, <<>>, <<>>)), closeOk))
  ELSE \E beh \in BehavioursFor(FALSE, IF Writable(r.defn[1].table) THEN 1 ELSE 0),
          closeOk \in BOOLEAN :
         CommandDone("write", <<tag>>, args,
                     Exited(Entered(CliWritten(WriteDone(r, write_one("Connected", r.defn[1],
                                                                      val, beh)))),
                            closeOk))

CliWriteParsed(tag, args, parsed) ==
  IF parsed.err # ""
  THEN CommandDone("write", <<tag>>, args, Ran(TyperExit, <<2>>, Fresh, <<>>, <<>>, <<>>))
  ELSE \/ CommandDone("write", <<tag>>, args,
                      NotEntered(get_client("None", [connectOk |-> FALSE])))
       \/ CliWriteResolved(tag, args, parsed.val, resolve({}, by_operand, tag))

\* the strings given as the value to write
WriteStrings ==
  { <<"t","r","u","e">>, <<" ","O","F","F">>, <<"1","0","0">>, <<"-","5">>,
    <<"0","x","1","0">>, <<"7","0","0","0","0">>, <<"a","b","c">> }

\* pyidec write [--host H] [--signed] TAG VALUE
CliWrite ==
  /\ last.op = "idle"
  /\ \E tag \in CliTags, value \in WriteStrings,
        args \in [host : BOOLEAN, signed : BOOLEAN] :
       IF ~args.host
       THEN CommandDone("write", <<tag>>, [args EXCEPT !.host = FALSE], NoHost)
       ELSE CliWriteParsed(tag, [host |-> TRUE, signed |-> args.signed, text |-> value],
                           ParseValue(value, args.signed))

\* poll, one pass of the loop after read_many ended with x: a ModbusIOError
\* is answered with `raise typer.Exit(3)`, and a result is printed by
\* looking up every polled tag in it
PollBlock(args, tags, x) ==
  IF x.exc.type = "ModbusIOError" THEN Ran(TyperExit, <<3>>, x, <<>>, <<>>, <<tags>>)
  ELSE IF x.exc.type # "" THEN Ran(x.exc, <<>>, x, <<>>, <<>>, <<tags>>)
  ELSE IF \E i \in 1..Len(tags) : tags[i] \notin DOMAIN x.out
       THEN Ran(PyError("KeyError"), <<>>, x, <<>>, <<>>, <<tags>>)
       ELSE Ran(NoExc, <<>>, x, SignedResults(args.signed, x.out), <<>>, <<tags>>)

\* the loop goes on after the sleep, or the command ends: with --once
\* after the first pass, else with the exception of the pass
CliPolled(r) ==
  IF r.exc.type = "" /\ ~last.value[1].once
  THEN /\ last' = [last EXCEPT !.out = r.out, !.cycles = @ + 1]
       /\ cache' = r.cache
       /\ client' = r.client
       /\ calls' = r.calls
       /\ lookups' = lookups (+) Looked(r.looked)
       /\ UNCHANGED <<by_operand, ops, norm, poll>>
  ELSE \E closeOk \in BOOLEAN :
         CommandDone("poll", last.tags, last.value[1], Exited(r, closeOk))

CliPollPlanned(rs, gr, plan) ==
  \E beh \in BehavioursFor(FALSE, Len(plan)) :
    CliPolled(PollBlock(last.value[1], last.tags,
                        ReadManyResolved(rs, client, gr, plan, beh)))

CliPollGrouped(rs, gr) == CliPollPlanned(rs, gr, PlanGrouped(gr))

CliPollResolved(rs) == CliPollGrouped(rs, GroupResolved(rs, last.tags))

\* poll: one pass of `while True:` under `with client:`
CliPollCycle ==
  /\ last.op = "poll"
  /\ last.outcome = "running"
  /\ last.cycles < MaxOps
  /\ CliPollResolved(ResolveAll(cache, by_operand, last.tags, Len(last.tags)))

\* poll has created its client and entered the with-block
CliPolling(tags, args) ==
  /\ last' = [op |-> "poll", tags |-> tags, value |-> <<args>>, outcome |-> "running",
              exc |-> NoExc, ret |-> <<>>, out |-> <<>>, errors |-> <<>>,
              passed |-> <<>>, intended |-> <<>>, code |-> 0 - 1, cycles |-> 0]
  /\ client' = "Connected"
  /\ calls' = <<ConnectCall(TRUE)>>
  /\ UNCHANGED <<by_operand, cache, ops, norm, lookups, poll>>

\* pyidec poll [--host H] [--once] [--signed] TAGS... (no --tag-map)
CliPoll ==
  /\ last.op = "idle"
  /\ \E tags \in TagLists(CliTags, MaxTags),
        args \in [host : BOOLEAN, once : BOOLEAN, signed : BOOLEAN] :
       IF ~args.host THEN CommandDone("poll", tags, args, NoHost)
       ELSE \/ CommandDone("poll", tags, args,
                           NotEntered(get_client("None", [connectOk |-> FALSE])))
            \/ CliPolling(tags, args)

\* the process has ended
ProcessExit ==
  /\ last.op \in {"read-many", "write", "poll"}
  /\ last.outcome = "exit"
  /\ last' = Idle
  /\ cache' = {}
  /\ client' = "None"
  /\ calls' = <<>>
  /\ lookups' = EmptyBag
  /\ UNCHANGED <<by_operand, ops, norm, poll>>

NextCli ==
  \/ CliReadMany
  \/ CliWrite
  \/ CliPoll
  \/ CliPollCycle
  \/ ProcessExit

SpecCli == Init /\ [][NextCli]_vars

(***************************************************************************)
(* TagMap(...) called on its own: the map is loaded from a list of entries *)
(* or from the resource of a profile.                                      *)
(***************************************************************************)
\* entries for a map: well-formed ones, a second definition of D0007 (the
\* duplicate of the tag map tests), a coil of width 16, a number given as a
\* string, a negative offset, a width that is neither 1 nor 16, an unknown
\* table, a dict without "width", and something that is no dict
EntryPool ==
  { [operand |-> <<"D","0","0","0","7">>, table |-> HOLDING_REGISTER,
     offset |-> [int |-> 7], width |-> [int |-> 16]],
    [operand |-> <<"D","0","0","0","7">>, table |-> COIL,
     offset |-> [int |-> 0], width |-> [int |-> 1]],
    [operand |-> <<"M","0","0","1","2">>, table |-> COIL,
     offset |-> [int |-> 12], width |-> [int |-> 1]],
    [operand |-> <<"M","0","0","1","2">>, table |-> COIL,
     offset |-> [int |-> 12], width |-> [int |-> 16]],
    [operand |-> <<"D","0","0","0","8">>, table |-> HOLDING_REGISTER,
     offset |-> [int |-> 8], width |-> [str |-> 16]],
    [operand |-> <<"D","0","0","0","8">>, table |-> HOLDING_REGISTER,
     offset |-> [int |-> 0 - 1], width |-> [int |-> 16]],
    [operand |-> <<"D","0","0","0","8">>, table |-> HOLDING_REGISTER,
     offset |-> [int |-> 8], width |-> [int |-> 8]],
    [operand |-> <<"Q","0","0","0","1">>, table |-> "bogus",
     offset |-> [int |-> 1], width |-> [int |-> 1]],
    [operand |-> <<"Q","0","0","0","1">>, table |-> COIL, offset |-> [int |-> 1]],
    [notdict |-> "text"] }

\* lists of at most n entries
EntryLists(n) == UNION {[1..k -> EntryPool] : k \in 0..n}

\* the parsed JSON a resource file may hold
ResourceData(n) ==
  [shape : {"list", "entries", "values"}, items : EntryLists(n)]
  \cup {[shape |-> "other", items |-> <<>>]}

\* before a TagMap is built
InitLoad ==
  /\ by_operand = {}
  /\ cache = {}
  /\ client = "None"
  /\ last = Idle
  /\ calls = <<>>
  /\ ops = 0
  /\ norm = <<>>
  /\ lookups = EmptyBag
  /\ poll = NoPoll

\* the state after TagMap(...) with argument arg ended with r
Loaded(arg, r) ==
  /\ by_operand' = IF r.exc = "" THEN r.defs ELSE by_operand
  /\ last' = [op |-> "TagMap", tags |-> <<>>, value |-> <<arg>>,
              outcome |-> IF r.exc = "" THEN "return" ELSE "raise",
              exc |-> IF r.exc = "" THEN NoExc ELSE PyError(r.exc),
              ret |-> <<>>, out |-> <<>>]
  /\ UNCHANGED <<cache, client, calls, ops, norm, lookups, poll>>

\* TagMap(map_override=entries)
TagMapOverride ==
  /\ last.op = "idle"
  /\ \E entries \in EntryLists(MaxEntries) :
       Loaded([path |-> "override", entries |-> entries],
              LoadEntries(entries, Len(entries)))

\* TagMap(profile=profile) with the resource file holding data
TagMapProfile ==
  /\ last.op = "idle"
  /\ \E profile \in {"fc6a", "FC6A", "fc5a"}, data \in ResourceData(MaxEntries) :
       Loaded([path |-> "profile", profile |-> profile, entries |-> DataEntries(data)],
              LoadProfile(profile, [name \in {"fc6a"} |-> data]))

\* TagMap(profile=profile) with no resource file
TagMapProfileMissing ==
  /\ last.op = "idle"
  /\ \E profile \in {"fc6a", "FC6A", "fc5a"} :
       Loaded([path |-> "missing", profile |-> profile, entries |-> <<>>],
              LoadProfile(profile, <<>>))

\* the tags looked up in a map
LookupTags ==
  { <<"D","0","0","0","7">>, <<"D","0","0","0","8">>, <<"M","0","0","1","2">>,
    <<"X","9","9","9","9">> }

\* one lookup with its answer: the TagDef returned or the exception raised
LookupCall(tag, l) ==
  [fn |-> "lookup", tag |-> tag, defn |-> l.defn,
   exc |-> IF l.err = "" THEN NoExc ELSE UnknownTagError(tag)]

\* TagMap.lookup(tag) on the map that was loaded; calls is the log of the
\* lookups made on it
Lookup ==
  /\ last.op = "TagMap"
  /\ last.outcome = "return"
  /\ Len(calls) < MaxOps
  /\ \E tag \in LookupTags : calls' = Append(calls, LookupCall(tag, lookup(by_operand, tag)))
  /\ UNCHANGED <<by_operand, cache, client, last, ops, norm, lookups, poll>>

NextLoad ==
  \/ TagMapOverride
  \/ TagMapProfile
  \/ TagMapProfileMissing
  \/ Lookup

SpecLoad == InitLoad /\ [][NextLoad]_vars

(***************************************************************************)
(* normalize_tag called on its own (it is exported by the package).        *)
(***************************************************************************)
\* what may stand before and after an operand
Leading == { <<>>, <<" ">>, <<"\t">> }

Trailing == { <<>>, <<" ">>, <<"\n">> }

\* what may stand where the letter belongs
Heads ==
  { <<>>, <<"d">>, <<"D">>, <<"T">>, <<"c">>, <<KelvinSign>>, <<"d","T">>, <<"D"," ">>,
    <<"#">> }

\* runs of at most n digits
DigitStrings(n) == UNION {[1..k -> {"0", "7"}] : k \in 0..n}

\* what may stand where the suffix belongs
Tails ==
  { <<>>, <<".">>, <<".","C">>, <<".","c">>, <<".","C","V">>, <<".","c","V">>,
    <<".","P","V">>, <<".","p","v">>, <<".","X","X">>, <<".","P">>, <<"x">>,
    <<".","C","V","X">> }

\* the raw strings handed to normalize_tag
RawStrings ==
  {l \o h \o d \o t \o r :
     l \in Leading, h \in Heads, d \in DigitStrings(MaxDigits), t \in Tails, r \in Trailing}

\* raw strings a caller normalises two of: spellings of few operands
AliasTags ==
  { <<"d","7">>, <<"D","7">>, <<"D","0","0","0","7">>, <<" ","D","0","7">>,
    <<"D","7","0">>, <<"D","8">>, <<"m","7">>,
    <<"T","7">>, <<"t","7",".","c","v">>, <<"T","0","7",".","C","V">>,
    <<"T","7",".","P","V">>, <<"t","7",".","c">>, <<"C","7">>, <<"c","7",".","C","V">>,
    <<"s","3">>, <<LongS,"3">>, <<"S",ArabicIndicThree>>, <<"i","7">>, <<DotlessI,"7">>,
    <<"k","7">>, <<"K","7">>, <<KelvinSign,"7">> }

\* one call of normalize_tag with its result
NormCall(raw, r) == [raw |-> raw, err |-> r.err, tag |-> r.tag]

\* normalize_tag(raw) for a raw string
NormalizeTag ==
  /\ norm = <<>>
  /\ \E raw \in RawStrings \cup AliasTags :
       norm' = Append(norm, NormCall(raw, normalize_tag(raw)))
  /\ UNCHANGED <<by_operand, cache, client, last, calls, ops, lookups, poll>>

\* normalize_tag(raw) for a second spelling, after a first
NormalizeAlias ==
  /\ Len(norm) = 1
  /\ norm[1].raw \in AliasTags
  /\ \E raw \in AliasTags :
       norm' = Append(norm, NormCall(raw, normalize_tag(raw)))
  /\ UNCHANGED <<by_operand, cache, client, last, calls, ops, lookups, poll>>

\* normalize_tag(t) for the tag t that the call before returned
NormalizeResult ==
  /\ Len(norm) = 1
  /\ norm[1].err = ""
  /\ norm' = Append(norm, NormCall(norm[1].tag, normalize_tag(norm[1].tag)))
  /\ UNCHANGED <<by_operand, cache, client, last, calls, ops, lookups, poll>>

NextNormalize ==
  \/ NormalizeTag
  \/ NormalizeAlias
  \/ NormalizeResult

SpecNormalize == Init /\ [][NextNormalize]_vars

(***************************************************************************)
(* Properties.  They speak about the call just finished: its arguments     *)
(* (last.tags), how it ended (last.outcome, last.exc, last.ret), and the   *)
(* transport operations it made (calls).                                   *)
(***************************************************************************)
\* the read and write requests of the call (connect and close left out)
Requests == SelectSeq(calls, LAMBDA c : c.fn \notin {"connect", "close"})

RequestsOn(table) == SelectSeq(Requests, LAMBDA c : c.table = table)

\* the tag resolves: it is well-formed and its operand is in the map
Resolves(tag) ==
  /\ normalize_tag(tag).err = ""
  /\ lookup(by_operand, normalize_tag(tag).tag).err = ""

\* the TagDef of a tag that resolves
DefOf(tag) == lookup(by_operand, normalize_tag(tag).tag).defn[1]

CallTags == {last.tags[i] : i \in 1..Len(last.tags)}

ReadManyCalled == last.op = "read_many" /\ last.tags # <<>>

ReadManySucceeded == ReadManyCalled /\ last.outcome = "return"

\* the offsets the call's tags request on a table
Requested(table) ==
  {DefOf(t).offset : t \in {u \in CallTags : Resolves(u) /\ DefOf(u).table = table}}

\* the maximal runs of consecutive offsets of S, as <<start, count>>
RunStarts(S) == {o \in S : o - 1 \notin S}

RunLength(S, o) ==
  CHOOSE n \in 1..Cardinality(S) :
    /\ \A i \in 0..(n - 1) : o + i \in S
    /\ o + n \notin S

MaximalRuns(S) == {<<o, RunLength(S, o)>> : o \in RunStarts(S)}

\* the requests made on a table, as <<start, count>>
RangesRead(table) ==
  {<<RequestsOn(table)[i].addr, RequestsOn(table)[i].count>> :
     i \in 1..Len(RequestsOn(table))}

\* the request of the call that covers (table, off), if there is one
Covering(table, off) ==
  {i \in 1..Len(Requests) :
     /\ Requests[i].table = table
     /\ Requests[i].addr <= off
     /\ off < Requests[i].addr + Requests[i].count}

\* what the transport returned for (table, off) in request i
Returned(i, off) == Requests[i].resp.values[off - Requests[i].addr + 1]

\* a boolean for a bit table, the integer unchanged for a register table
AsResult(table, x) ==
  IF table \in {COIL, DISCRETE_INPUT}
  THEN [t |-> "bool", v |-> IF x.v = 0 THEN 0 ELSE 1]
  ELSE x

\* C1: after a read_many that succeeded, the requests made on each table
\* are exactly the maximal runs of consecutive offsets requested on that
\* table, one request per run.
C1_RequestsAreMaximalRuns ==
  ReadManySucceeded =>
    \A table \in ModbusTable :
      /\ RangesRead(table) = MaximalRuns(Requested(table))
      /\ Len(RequestsOn(table)) = Cardinality(RunStarts(Requested(table)))

\* offsets {7,8,10} of the holding registers were read as (7,2) and (10,1)
C1_Witness ==
  /\ ReadManySucceeded
  /\ Requested(HOLDING_REGISTER) = {7, 8, 10}
  /\ RangesRead(HOLDING_REGISTER) = {<<7, 2>>, <<10, 1>>}
  /\ Len(RequestsOn(HOLDING_REGISTER)) = 2

\* C2: after a read_many that succeeded, the result holds for every
\* requested tag the value the transport returned for the tag's own table
\* and offset, as a boolean for bit tables and unchanged for registers.
C2_EveryTagGetsItsOffsetsValue ==
  ReadManySucceeded =>
    \A t \in CallTags :
      /\ t \in DOMAIN last.ret
      /\ \E i \in Covering(DefOf(t).table, DefOf(t).offset) :
           last.ret[t] = AsResult(DefOf(t).table, Returned(i, DefOf(t).offset))

\* C3: after a read_many that succeeded, every original tag string of the
\* request is a key of the result, and strings that resolve to the same
\* table and offset hold the same value.
C3_EveryOriginalIsAKey ==
  ReadManySucceeded =>
    /\ CallTags \subseteq DOMAIN last.ret
    /\ \A t, u \in CallTags \cap DOMAIN last.ret :
         (DefOf(t).table = DefOf(u).table /\ DefOf(t).offset = DefOf(u).offset)
           => last.ret[t] = last.ret[u]

\* distinct strings of the request that normalise to one operand
Aliases ==
  {<<t, u>> \in CallTags \X CallTags :
     t # u /\ normalize_tag(t).tag = normalize_tag(u).tag}

\* C4: after a read_many that succeeded, the offset of an operand named by
\* several strings is covered by exactly one request, and each of these
\* strings is a key of the result with the same value.
C4_AliasesShareOneRead ==
  ReadManySucceeded =>
    \A p \in Aliases :
      /\ Cardinality(Covering(DefOf(p[1]).table, DefOf(p[1]).offset)) = 1
      /\ p[1] \in DOMAIN last.ret
      /\ p[2] \in DOMAIN last.ret
      /\ last.ret[p[1]] = last.ret[p[2]]

\* the primitive that belongs to a table
OwnPrimitive(c) ==
  \/ c.table = COIL /\ c.fn = "read_coils"
  \/ c.table = DISCRETE_INPUT /\ c.fn = "read_discrete_inputs"
  \/ c.table = INPUT_REGISTER /\ c.fn = "read_input_registers"
  \/ c.table = HOLDING_REGISTER /\ c.fn = "read_holding_registers"

\* C5: every request of a read_many goes to one table through that table's
\* own primitive and covers only offsets requested on that table; a table
\* gets no more requests than it has requested offsets.
C5_RequestsStayInTheirTable ==
  ReadManyCalled =>
    /\ \A i \in 1..Len(Requests) :
         /\ OwnPrimitive(Requests[i])
         /\ \A o \in Requests[i].addr..(Requests[i].addr + Requests[i].count - 1) :
              o \in Requested(Requests[i].table)
    /\ \A table \in ModbusTable :
         Len(RequestsOn(table)) <= Cardinality(Requested(table))

\* a holding-register tag and an input-register tag at the same offset 7:
\* one request on each table
C5_Witness ==
  /\ ReadManySucceeded
  /\ Requested(HOLDING_REGISTER) = {7}
  /\ Requested(INPUT_REGISTER) = {7}
  /\ Len(Requests) = 2
  /\ \E i, j \in 1..2 :
       /\ Requests[i].fn = "read_holding_registers"
       /\ Requests[j].fn = "read_input_registers"

\* the positions of the call's tags that do not resolve
BadPositions == {i \in 1..Len(last.tags) : ~Resolves(last.tags[i])}

FirstBad == CHOOSE i \in BadPositions : \A j \in BadPositions : i <= j

\* the error a tag that does not resolve is rejected with
ResolutionError(tag) ==
  IF normalize_tag(tag).err # "" THEN "InvalidTagError" ELSE "UnknownTagError"

\* C6: a read, write or read_many with a malformed or unknown tag anywhere
\* in its tags fails with the error of the first such tag and makes no
\* transport operation: no connect, no read, no write.
C6_BadTagNoTransport ==
  (last.op \in {"read", "write", "read_many"} /\ BadPositions # {}) =>
    /\ last.outcome = "raise"
    /\ last.exc.type = ResolutionError(last.tags[FirstBad])
    /\ calls = <<>>

\* a read_many on a fresh client whose third tag is the bad one, after two
\* tags that resolve
C6_Witness ==
  /\ ReadManyCalled
  /\ ops = 1
  /\ BadPositions = {3}
  /\ last.exc.type = "UnknownTagError"
  /\ calls = <<>>

\* a request that failed: an exception, an error response, or fewer
\* elements than asked for
Failed(c) ==
  \/ c.resp.kind \in {"raise", "error"}
  \/ c.fn \in {"read_coils", "read_discrete_inputs", "read_input_registers",
               "read_holding_registers"}
     /\ Len(c.resp.values) < c.count

\* the number of requests the call's tags need when all resolve
RunsNeeded ==
  Cardinality({<<table, o>> \in ModbusTable \X (0..12) : o \in RunStarts(Requested(table))})

\* C7: in read_many a failed request is the last transport operation of
\* the call (it is not repeated and no other range or table is read after
\* it), the call raises and returns no result.
C7_FailsAtFirstFailure ==
  ReadManyCalled =>
    \A i \in 1..Len(Requests) :
      Failed(Requests[i]) =>
        /\ i = Len(Requests)
        /\ last.outcome = "raise"
        /\ last.ret = <<>>

\* the first of three ranges failed, after which nothing was read
C7_Witness ==
  /\ ReadManyCalled
  /\ BadPositions = {}
  /\ RunsNeeded = 3
  /\ Len(Requests) = 1
  /\ Failed(Requests[1])
  /\ last.outcome = "raise"

\* the call met a transport failure: connect() failed or a request failed
TransportFailed ==
  \/ \E i \in 1..Len(calls) : calls[i].fn = "connect" /\ calls[i].resp.kind = "fail"
  \/ \E i \in 1..Len(Requests) : Failed(Requests[i])

\* C8: a read, write or read_many that met a transport failure raises
\* ModbusIOError, and the error carries the table and the offset.
C8_TransportFailureIsModbusIOError ==
  (last.op \in {"read", "write", "read_many"} /\ TransportFailed) =>
    /\ last.outcome = "raise"
    /\ last.exc.type = "ModbusIOError"
    /\ last.exc.table # <<>>
    /\ last.exc.offset # <<>>

\* a read request answered with fewer elements than asked for
Short(c) == c.resp.kind = "ok" /\ Len(c.resp.values) < c.count

\* the tags of the call that lie in the range of request c
TagsIn(c) ==
  {t \in CallTags :
     /\ Resolves(t)
     /\ DefOf(t).table = c.table
     /\ c.addr <= DefOf(t).offset
     /\ DefOf(t).offset < c.addr + c.count}

\* C9: a read or read_many whose request got a short response raises
\* ModbusIOError with the request's table and start offset, returns
\* nothing, and has assigned no value to a tag of that range.
C9_ShortResponseRejected ==
  last.op \in {"read", "read_many"} =>
    \A i \in 1..Len(Requests) :
      Short(Requests[i]) =>
        /\ last.outcome = "raise"
        /\ last.exc.type = "ModbusIOError"
        /\ last.exc.table = <<Requests[i].table>>
        /\ last.exc.offset = <<Requests[i].addr>>
        /\ last.ret = <<>>
        /\ TagsIn(Requests[i]) \cap DOMAIN last.out = {}

\* a read_many whose second request, for two registers, got one element,
\* after a first range whose value was already assigned
C9_Witness ==
  /\ ReadManyCalled
  /\ Len(Requests) = 2
  /\ Requests[2].count = 2
  /\ Len(Requests[2].resp.values) = 1
  /\ DOMAIN last.out # {}
  /\ last.exc.type = "ModbusIOError"

\* the call is a write to a tag of a table that cannot be written
ReadOnlyWrite ==
  /\ last.op = "write"
  /\ Resolves(last.tags[1])
  /\ DefOf(last.tags[1]).table \in {INPUT_REGISTER, DISCRETE_INPUT}

\* C10: a write to a tag of a read-only table raises an error that is none
\* of InvalidTagError, UnknownTagError and ModbusIOError, and makes no
\* transport operation, not even a connect.
C10_ReadOnlyWriteUnsupported ==
  ReadOnlyWrite =>
    /\ last.outcome = "raise"
    /\ last.exc.type \notin {"InvalidTagError", "UnknownTagError", "ModbusIOError"}
    /\ calls = <<>>

\* the transport reads and writes among the call's requests
Reads == SelectSeq(Requests, LAMBDA c : c.fn \in {"read_coils", "read_discrete_inputs",
                                                 "read_input_registers",
                                                 "read_holding_registers"})

Writes == SelectSeq(Requests, LAMBDA c : c.fn \in {"write_coil", "write_register"})

\* bool(value) and int(value) of a caller's value
AsBool(x) == IF x.v = 0 THEN PyFalse ELSE PyTrue

AsInt(x) == PyIntOf(x.v)

\* C11: a write that succeeded made exactly one transport write and no
\* read: write_coil(offset, bool(value)) for a coil tag and
\* write_register(offset, int(value)) for a holding-register tag, at the
\* offset of the tag's TagDef and at no other.
C11_WriteIsOneTransportWrite ==
  (last.op = "write" /\ last.outcome = "return") =>
    /\ Len(Writes) = 1
    /\ Reads = <<>>
    /\ Writes[1].addr = DefOf(last.tags[1]).offset
    /\ Writes[1].count = 1
    /\ Writes[1].table = DefOf(last.tags[1]).table
    /\ \/ /\ DefOf(last.tags[1]).table = COIL
          /\ Writes[1].fn = "write_coil"
          /\ Writes[1].arg = <<AsBool(last.value[1])>>
       \/ /\ DefOf(last.tags[1]).table = HOLDING_REGISTER
          /\ Writes[1].fn = "write_register"
          /\ Writes[1].arg = <<AsInt(last.value[1])>>

\* write("m12", 100) on a client that was connected before: write_coil(12, True)
C11_Witness ==
  /\ last.op = "write"
  /\ last.outcome = "return"
  /\ last.tags = << <<"m","1","2">> >>
  /\ last.value = <<PyIntOf(100)>>
  /\ calls = <<Call("write_coil", COIL, 12, 1, <<PyTrue>>, [kind |-> "ok", values |-> <<>>])>>

\* C12: a read that succeeded made exactly one transport read, through the
\* primitive of the tag's table, at the tag's offset with count 1, and no
\* write; it returns element 0 of the response, a boolean for a coil or
\* discrete input and an integer for a register.
C12_ReadIsOneTransportRead ==
  (last.op = "read" /\ last.outcome = "return") =>
    /\ Len(Reads) = 1
    /\ Writes = <<>>
    /\ OwnPrimitive(Reads[1])
    /\ Reads[1].table = DefOf(last.tags[1]).table
    /\ Reads[1].addr = DefOf(last.tags[1]).offset
    /\ Reads[1].count = 1
    /\ last.ret = <<AsResult(Reads[1].table, Reads[1].resp.values[1])>>
    /\ last.ret[1].t = IF Reads[1].table \in {COIL, DISCRETE_INPUT} THEN "bool" ELSE "int"

\* read("d7") with D0007 at holding_register/7 and a transport answering
\* [42] returned 42
C12_Witness ==
  /\ last.op = "read"
  /\ last.outcome = "return"
  /\ last.tags = << <<"d","7">> >>
  /\ Len(Reads) = 1
  /\ Reads[1].fn = "read_holding_registers"
  /\ Reads[1].addr = 7
  /\ Reads[1].resp.values = <<PyIntOf(42)>>
  /\ last.ret = <<PyIntOf(42)>>

(***************************************************************************)
(* Properties of normalize_tag.  They speak about the calls in norm: the   *)
(* raw string of each and what it returned (tag) or raised (err).          *)
(***************************************************************************)
\* the raw string without the whitespace around it
Body(raw) == Strip(raw)

\* its first character
LetterOf(raw) == Body(raw)[1]

\* the characters of a string
Chars(s) == {s[i] : i \in 1..Len(s)}

\* the digits that follow the first character
DigitsOf(raw) ==
  SubSeq(Body(raw), 2,
         CHOOSE k \in 1..Len(Body(raw)) :
           /\ \A j \in 2..k : IsDigit(Body(raw)[j])
           /\ (k = Len(Body(raw)) \/ ~IsDigit(Body(raw)[k + 1])))

\* what follows the digits
AfterDigits(raw) == SubSeq(Body(raw), 2 + Len(DigitsOf(raw)), Len(Body(raw)))

\* the number a run of digits denotes
RECURSIVE NumberOf(_)
NumberOf(ds) ==
  IF ds = <<>> THEN 0
  ELSE DigitValue(ds[1]) * (10 ^ (Len(ds) - 1)) + NumberOf(Tail(ds))

\* the same letter up to case
SameLetter(a, b) == Upper(a) = Upper(b) \/ Lower(a) = Lower(b)

\* the suffix a raw string denotes, in upper case; a timer or counter
\* written without one denotes its current value
SuffixDenoted(raw) ==
  IF AfterDigits(raw) = <<>> /\ Upper(LetterOf(raw)) \in {"T", "C"}
  THEN <<".","C","V">>
  ELSE UpperStr(AfterDigits(raw))

\* two raw strings that denote the same operand
SameOperand(x, y) ==
  /\ SameLetter(LetterOf(x), LetterOf(y))
  /\ NumberOf(DigitsOf(x)) = NumberOf(DigitsOf(y))
  /\ SuffixDenoted(x) = SuffixDenoted(y)

\* the call before returned a tag and this call normalises that tag
Renormalised == Len(norm) = 2 /\ norm[1].err = "" /\ norm[2].raw = norm[1].tag

\* C13: normalising a tag that normalize_tag returned succeeds and returns
\* the same tag.
C13_NormalizeIdempotent ==
  Renormalised => (norm[2].err = "" /\ norm[2].tag = norm[1].tag)

\* "T7" gave T0007.CV, the default suffix added, and T0007.CV gave itself
C13_Witness ==
  /\ Renormalised
  /\ norm[1].raw = <<"T","7">>
  /\ norm[2].raw = <<"T","0","0","0","7",".","C","V">>
  /\ norm[2].tag = <<"T","0","0","0","7",".","C","V">>

\* C14: two raw strings that normalize_tag accepts get the same tag if they
\* denote the same operand (same letter up to case, same number, same
\* suffix up to case), and different tags otherwise.
C14_SameOperandSameTag ==
  (Len(norm) = 2 /\ norm[1].err = "" /\ norm[2].err = "") =>
    (SameOperand(norm[1].raw, norm[2].raw) <=> norm[1].tag = norm[2].tag)

\* an upper-case ASCII letter, four ASCII digits, and .C, .CV or .PV
\* exactly when the letter is T or C
CanonicalShape(tag) ==
  /\ Len(tag) >= 5
  /\ \E i \in 1..26 : tag[1] = UpperLetters[i]
  /\ \A j \in 2..5 : IsAsciiDigit(tag[j])
  /\ SubSeq(tag, 6, Len(tag)) \in VALID_SUFFIXES \cup {<<>>}
  /\ (Len(tag) > 5 <=> tag[1] \in {"T", "C"})

\* C15: every tag normalize_tag returns is one upper-case ASCII letter and
\* four decimal digits, followed by .C, .CV or .PV exactly when the letter
\* is T or C.
C15_OutputIsCanonical ==
  \A i \in 1..Len(norm) : norm[i].err = "" => CanonicalShape(norm[i].tag)

\* the raw string from its first dot on
FromDot(s) == SubSeq(s, CHOOSE k \in 1..Len(s) : s[k] = "." /\ \A j \in 1..(k - 1) : s[j] # ".",
                     Len(s))

\* a run of 1..4 ASCII digits, padded with zeros to four
ZeroPadded(ds) == [j \in 1..(4 - Len(ds)) |-> "0"] \o ds

\* T or C, in either case, and 1..4 ASCII digits
PlainTimerOrCounter(s) ==
  /\ Len(s) \in 2..5
  /\ s[1] \in {"T", "t", "C", "c"}
  /\ \A j \in 2..Len(s) : IsAsciiDigit(s[j])

\* C16: a T or C operand written without a suffix normalises to its .CV
\* form; a suffix the caller wrote is the suffix of the result, in upper
\* case, never the default in its place.
C16_DefaultSuffixOnlyWhenAbsent ==
  \A i \in 1..Len(norm) :
    /\ PlainTimerOrCounter(Body(norm[i].raw)) =>
         /\ norm[i].err = ""
         /\ norm[i].tag = <<Upper(LetterOf(norm[i].raw))>>
                           \o ZeroPadded(Tail(Body(norm[i].raw))) \o <<".","C","V">>
    /\ (norm[i].err = "" /\ Upper(LetterOf(norm[i].raw)) \in {"T", "C"}
          /\ "." \in Chars(norm[i].raw)) =>
         SubSeq(norm[i].tag, 6, Len(norm[i].tag)) = UpperStr(FromDot(Body(norm[i].raw)))

\* "T7" got the default, T0007.CV, and "t7.c" kept its suffix, T0007.C
C16_Witness ==
  /\ Len(norm) = 2
  /\ norm[1].raw = <<"T","7">>
  /\ norm[1].tag = <<"T","0","0","0","7",".","C","V">>
  /\ norm[2].raw = <<"t","7",".","c">>
  /\ norm[2].tag = <<"T","0","0","0","7",".","C">>

\* the whole string is an ASCII letter, 1..4 ASCII digits and, optionally,
\* a dot and C, CV or PV in either case
WellFormed(s) ==
  /\ Len(s) >= 2
  /\ IsAsciiLetter(s[1])
  /\ \E n \in 1..4 :
       /\ Len(s) >= n + 1
       /\ \A j \in 2..(n + 1) : IsAsciiDigit(s[j])
       /\ \/ Len(s) = n + 1
          \/ /\ Len(s) > n + 2
             /\ s[n + 2] = "."
             /\ UpperStr(SubSeq(s, n + 3, Len(s))) \in SuffixBodies

\* C17: normalize_tag raises InvalidTagError for every raw string that as
\* a whole is not a letter, 1..4 digits and an optional .C, .CV or .PV.
C17_MalformedRejected ==
  \A i \in 1..Len(norm) :
    ~WellFormed(norm[i].raw) => norm[i].err = "InvalidTagError"

\* the raw string ends in a dot and C, CV or PV, in either case
Suffixed(s) ==
  \E k \in 1..2 :
    /\ Len(s) > k + 1
    /\ s[Len(s) - k] = "."
    /\ UpperStr(SubSeq(s, Len(s) - k + 1, Len(s))) \in SuffixBodies

\* C18: normalize_tag raises InvalidTagError for a raw string that ends in
\* one of the suffixes and begins with a letter other than T and C; no
\* tag is returned for a raw string with a dot without a dot in it.
C18_SuffixOnOtherLetterRejected ==
  \A i \in 1..Len(norm) :
    /\ (Suffixed(Body(norm[i].raw)) /\ Upper(LetterOf(norm[i].raw)) \notin {"T", "C"}) =>
         norm[i].err = "InvalidTagError"
    /\ (norm[i].err = "" /\ "." \in Chars(norm[i].raw)) => "." \in Chars(norm[i].tag)

\* "d7.PV" was rejected
C18_Witness ==
  /\ Len(norm) = 1
  /\ norm[1].raw = <<"d","7",".","P","V">>
  /\ norm[1].err = "InvalidTagError"

(***************************************************************************)
(* Properties of TagMap(...).  They speak about the load just made: its    *)
(* argument (last.value), how it ended, and the map it left (by_operand).  *)
(***************************************************************************)
MapLoaded == last.op = "TagMap" /\ last.outcome = "return"

\* the entries the load goes through: every entry of an override list, the
\* dicts among the entries of a resource of a known profile
Considered ==
  IF last.value[1].path = "override" THEN last.value[1].entries
  ELSE IF ProfileLower(last.value[1].profile) \in PROFILE_RESOURCE
  THEN SelectSeq(last.value[1].entries, IsDict)
  ELSE <<>>

\* two of these entries define the same operand
DuplicateOperand ==
  \E i, j \in 1..Len(Considered) :
    /\ i < j
    /\ "operand" \in DOMAIN Considered[i]
    /\ "operand" \in DOMAIN Considered[j]
    /\ Considered[i].operand = Considered[j].operand

\* C19: on the entry-list path and on the profile path, a load with two
\* entries for the same operand fails and leaves no map; a map that was
\* loaded holds one definition per operand, and every entry that was given
\* is in it, none replaced or passed over in favour of another.
C19_DuplicateOperandFailsLoad ==
  last.op = "TagMap" =>
    /\ DuplicateOperand => (last.outcome = "raise" /\ by_operand = {})
    /\ MapLoaded =>
         /\ \A d, e \in by_operand : d.operand = e.operand => d = e
         /\ \A i \in 1..Len(Considered) :
              \E d \in by_operand :
                /\ d.operand = Considered[i].operand
                /\ d.table = Considered[i].table
                /\ d.offset = IntOf(Considered[i].offset)
                /\ d.width = IntOf(Considered[i].width)

\* the profile path met D0007 twice, after another entry that was fine,
\* and failed with ValueError
C19_Witness ==
  /\ last.op = "TagMap"
  /\ last.value[1].path = "profile"
  /\ Len(Considered) = 3
  /\ Considered[1].operand = <<"M","0","0","1","2">>
  /\ Considered[2].operand = <<"D","0","0","0","7">>
  /\ Considered[3].operand = <<"D","0","0","0","7">>
  /\ Considered[2] # Considered[3]
  /\ last.outcome = "raise"
  /\ last.exc.type = "ValueError"
  /\ by_operand = {}

\* the width that belongs to a table
TableWidth(table) == IF table \in {COIL, DISCRETE_INPUT} THEN 1 ELSE 16

\* an entry with numbers for offset and width that has a negative offset or
\* a width other than its table's
BreaksTagDef(e) ==
  /\ DOMAIN e = {"operand", "table", "offset", "width"}
  /\ e.table \in ModbusTable
  /\ (IntOf(e.offset) < 0 \/ IntOf(e.width) # TableWidth(e.table))

\* C20: every TagDef of a loaded map has an offset >= 0 and the width of
\* its table, 1 for coil and discrete_input and 16 for input_register and
\* holding_register; a load with an entry that is otherwise fails.
C20_TagDefWidthMatchesTable ==
  last.op = "TagMap" =>
    /\ MapLoaded =>
         \A d \in by_operand : d.offset >= 0 /\ d.width = TableWidth(d.table)
    /\ (\E i \in 1..Len(Considered) : BreaksTagDef(Considered[i])) =>
         last.outcome = "raise"

\* the TagDef an entry defines
EntryDef(e) ==
  [operand |-> e.operand, table |-> e.table, offset |-> IntOf(e.offset),
   width |-> IntOf(e.width)]

\* the TagDefs of the entries the map was loaded from
DefsLoaded == {EntryDef(Considered[i]) : i \in 1..Len(Considered)}

\* C21: on a loaded map a lookup returns the TagDef loaded for the operand,
\* with its operand, table, offset and width, and raises UnknownTagError
\* with the tag when no entry has the operand; the map stays as it was
\* loaded, and lookups of the same tag get the same answer.
C21_LookupReturnsLoadedTagDef ==
  (MapLoaded /\ calls # <<>>) =>
    /\ \A i \in 1..Len(calls) :
         IF \E d \in DefsLoaded : d.operand = calls[i].tag
         THEN /\ calls[i].exc = NoExc
              /\ Len(calls[i].defn) = 1
              /\ calls[i].defn[1] \in DefsLoaded
              /\ calls[i].defn[1].operand = calls[i].tag
         ELSE /\ calls[i].defn = <<>>
              /\ calls[i].exc.type = "UnknownTagError"
              /\ calls[i].exc.tag = <<calls[i].tag>>
    /\ by_operand = DefsLoaded
    /\ \A i, j \in 1..Len(calls) :
         calls[i].tag = calls[j].tag =>
           (calls[i].defn = calls[j].defn /\ calls[i].exc = calls[j].exc)

\* on the map of D0007 (holding_register/7/16) and M0012 (coil/12/1),
\* lookup("X9999") raised and lookup("D0007") then returned its TagDef
C21_Witness ==
  /\ MapLoaded
  /\ Len(Considered) = 2
  /\ Len(calls) = 2
  /\ calls[1].tag = <<"X","9","9","9","9">>
  /\ calls[1].exc.type = "UnknownTagError"
  /\ calls[2].tag = <<"D","0","0","0","7">>
  /\ calls[2].defn = <<[operand |-> <<"D","0","0","0","7">>, table |-> HOLDING_REGISTER,
                        offset |-> 7, width |-> 16]>>
  /\ \E d \in by_operand : d.operand = <<"M","0","0","1","2">> /\ d.table = COIL

\* the keys of the cache
CacheKeys == {e.key : e \in cache}

\* the events ev of the generator
PollEventsOf(ev) == {i \in DOMAIN poll.events : poll.events[i].ev = ev}

\* C22: over reads, writes, read_many calls, explains and poll cycles of one
\* client, TagMap.lookup has returned at most once for each canonical tag:
\* the tags it has returned for are exactly the keys of the cache, each
\* looked up once however often and under whichever spelling it was
\* resolved, and the tag map is the one the client was built with
C22_LookupOncePerTag ==
  /\ BagToSet(lookups) = CacheKeys
  /\ \A t \in BagToSet(lookups) : CopiesIn(t, lookups) = 1
  /\ by_operand = TagMapInit(MapEntries)

\* a poll cycle has resolved "d7", explain("D0007") has resolved the same
\* register after it, and D0007 was looked up once
C22_Witness ==
  /\ poll.tags = << <<"d","7">> >>
  /\ PollEventsOf("yield") # {}
  /\ last.op = "explain"
  /\ last.tags = << <<"D","0","0","0","7">> >>
  /\ last.outcome = "return"
  /\ last.ret[1].normalized_tag = <<"D","0","0","0","7">>
  /\ CopiesIn(<<"D","0","0","0","7">>, lookups) = 1

\* the generator's events are those of `read_many, yield, sleep, read_many,
\* yield, ...`: nothing before the first next(), every result yielded is the
\* result of the read_many of the polled tags right before it, the first
\* event is a read_many, and between two read_many there is one yield and
\* then one sleep of the interval
PollOrder ==
  /\ poll.pc \in {"none", "start"} => poll.events = <<>>
  /\ poll.events # <<>> => poll.events[1].ev = "read_many"
  /\ \A i \in DOMAIN poll.events :
       /\ poll.events[i].ev = "read_many" =>
            /\ poll.events[i].tags = poll.tags
            /\ i > 1 => poll.events[i - 1].ev = "sleep"
       /\ poll.events[i].ev = "yield" =>
            /\ i > 1
            /\ poll.events[i - 1].ev = "read_many"
            /\ poll.events[i - 1].out = poll.events[i].out
       /\ poll.events[i].ev = "sleep" =>
            /\ i > 1
            /\ poll.events[i - 1].ev = "yield"
            /\ poll.events[i].secs = poll.interval

\* the generator has ended with a read_many that raised
EndedByReadMany ==
  /\ poll.events # <<>>
  /\ poll.events[Len(poll.events)].ev = "read_many"
  /\ poll.events[Len(poll.events)].out = <<>>

\* the generator has ended with the sleep after a result
EndedBySleep ==
  /\ poll.events # <<>>
  /\ poll.events[Len(poll.events)].ev = "sleep"

C24_SignConversionsInverse ==
  /\ (last.op = "to_signed" /\ last.out = <<>>) => last.ret[1] \in Signed16
  /\ (last.op = "from_signed" /\ last.out = <<>>) => last.ret[1] \in Unsigned16
  /\ (last.op \in {"to_signed", "from_signed"} /\ last.out # <<>>) => last.ret = last.out

\* to_signed(from_signed(-32768)) = -32768, by way of 32768
C24_Witness ==
  /\ last.op = "to_signed"
  /\ last.out = <<0 - 32768>>
  /\ last.value = <<32768>>
  /\ last.ret = <<0 - 32768>>

\* read-many --partial has printed its output
PartialRun == last.op = "read-many" /\ last.value[1].partial /\ last.code = 0

\* a request of the batch read failed
BatchFailed == \E i \in 1..Len(Requests) : Failed(Requests[i])

\* the tags handed to read_many
PassedTags ==
  IF last.passed = <<>> THEN {} ELSE {last.passed[1][i] : i \in 1..Len(last.passed[1])}

CommandEnded == last.op \in {"read-many", "write", "poll"} /\ last.outcome = "exit"

\* C26: a command ends with the exit code of the typer.Exit it raised:
\* 2 without --host, 2 for a write value that does not parse, 3 for a
\* ModbusIOError in a poll cycle; and exit code 4 is left to exceptions
\* other than InvalidTagError, UnknownTagError, ModbusIOError and typer.Exit
C26_ExitCodeIsTheIntendedOne ==
  CommandEnded =>
    /\ last.intended # <<>> => last.code = last.intended[1]
    /\ ~last.value[1].host => last.code = 2
    /\ last.code = 4 =>
         last.exc.type \notin {"InvalidTagError", "UnknownTagError", "ModbusIOError", "Exit"}

\* C27: the stored handle is None or a handle whose connect() returned
\* true, so the requests of a call are made on a connected handle and a
\* failed connect() leaves no handle for the next call to reuse
C27_HandleOnlyIfConnected ==
  /\ client # "Unconnected"
  /\ Requests # <<>> => client = "Connected"

\* C28: read(tag) and read_many([tag]), from the same state and against the
\* same transport, make the same calls, with at most one request, of count
\* 1, and either both return, the same value, or both raise an error of the
\* same kind
C28_ReadEquivalentToReadManyOfOne ==
  last.op = "read/read_many" =>
    /\ calls = last.many.calls
    /\ Len(Requests) <= 1
    /\ \A i \in 1..Len(Requests) : Requests[i].count = 1
    /\ \/ /\ last.exc.type = ""
          /\ last.many.exc.type = ""
          /\ last.tags[1] \in DOMAIN last.many.out
          /\ last.ret[1] = last.many.out[last.tags[1]]
       \/ /\ last.exc.type # ""
          /\ last.exc.type = last.many.exc.type

\* a call that resolves tags has ended
Resolving == last.op \in {"read", "write", "read_many", "explain", "read/read_many"}

\* C29: every cache key is a canonical tag, held once, and its value is
\* what TagMap.lookup returns for it; after a call that failed on a tag that
\* does not resolve, that tag has no entry, and the tags before it in the
\* call have theirs
C29_CacheHoldsLookupsOfCanonicalTags ==
  /\ \A e \in cache :
       /\ CanonicalShape(e.key)
       /\ normalize_tag(e.key) = [err |-> "", tag |-> e.key]
       /\ lookup(by_operand, e.key) = [err |-> "", defn |-> <<e.defn>>]
       /\ \A f \in cache : f.key = e.key => f = e
  /\ (Resolving /\ BadPositions # {}) =>
       /\ last.outcome = "raise"
       /\ last.tags[FirstBad] \notin CacheKeys
       /\ normalize_tag(last.tags[FirstBad]).err = ""
            => normalize_tag(last.tags[FirstBad]).tag \notin CacheKeys
       /\ \A i \in 1..(FirstBad - 1) : normalize_tag(last.tags[i]).tag \in CacheKeys

\* a read_many on a new client fails on its third tag, which is unknown:
\* the register and the coil before it are cached, the unknown tag is not
C29_Witness ==
  /\ last.op = "read_many"
  /\ ops = 1
  /\ last.tags = << <<"d","7">>, <<"m","1","2">>, <<"X","9">> >>
  /\ last.exc.type = "UnknownTagError"
  /\ CacheKeys = { <<"D","0","0","0","7">>, <<"M","0","0","1","2">> }

\* a step that is a call of close() or __exit__()
Closing == last.op = "idle" /\ last'.op \in {"close", "__exit__"}

\* a step that is a call which needs the handle, on a client without one
Reopening ==
  /\ last.op = "idle"
  /\ client = "None"
  /\ \/ last'.op \in {"connect", "__enter__"}
     \/ last'.op \in {"read", "write", "read_many", "read/read_many"} /\ calls' # <<>>

\* C30: close() (and __exit__) returns, leaves the client without a handle
\* whether the handle's close() returned or raised or there was no handle,
\* and leaves the cache and the tag map as they were; a call that needs
\* the handle when there is none starts with a connect
C30_CloseDropsHandleKeepsCache ==
  [][/\ Closing =>
         /\ last'.outcome = "return"
         /\ client' = "None"
         /\ cache' = cache
         /\ by_operand' = by_operand
         /\ (client = "None" => calls' = <<>>)
     /\ Reopening =>
         /\ calls'[1].fn = "connect"
         /\ calls'[1].resp.kind = "ok" => client' = "Connected"]_vars

\* close() on a client that has cached a tag and whose handle's close()
\* raises: the call returns and the handle is gone
C30_Witness ==
  /\ last.op = "close"
  /\ last.outcome = "return"
  /\ calls = <<CloseCall(FALSE)>>
  /\ client = "None"
  /\ cache # {}
====
